---- MODULE Spec2Model ----
(***************************************************************************)
(* A model of the SyncStream engine: content-addressed chunks, streams     *)
(* assembled from chunks, and the rename-exchange publish primitive.       *)
(*                                                                         *)
(* The module holds several specifications over one set of variables; each *)
(* specification drives one component and leaves the other components'     *)
(* variables at their initial values:                                      *)
(*   SpecChunk    Chunk::create and Chunk::download (streams/chunk.rs)      *)
(*   SpecCreate   Stream::create, the chunking loop (streams/stream.rs)     *)
(*   SpecRename   fs::rename / rename_atomic, step by step, with a reader   *)
(*   SpecDownload Stream::download, both implementations, with failures     *)
(*   SpecConcurrent   the same calls, interleaved                           *)
(*   SpecTree         Tree::create, Tree::download, Tree::deploy            *)
(*   SpecStreamCreate Stream::create of stream/mod.rs, interleaved calls    *)
(*   SpecChunkPair    two Chunk::create calls on the same bytes             *)
(***************************************************************************)
EXTENDS Integers, Sequences, FiniteSets, TLC

(***************************************************************************)
(* Bounds of the model.                                                    *)
(***************************************************************************)
\* longest raw byte sequence handed to Chunk::create
MaxRawLen == 3
\* longest source file handed to Stream::create
MaxFileLen == 5
\* CHUNK_SIZE of streams/chunk.rs (16 MiB), scaled down
CHUNK_SIZE == 2
\* longest file a downloaded Stream stands for
MaxDlLen == 3
\* most bytes one read of the decoder returns (a 4096-byte buffer), scaled down
READ_BUF == 2
\* longest file of a directory handed to Tree::create
MaxTreeFileLen == 1

\* the values a byte takes in the model
Byte == {0, 1}

\* all byte sequences of length at most n
BytesUpTo(n) == UNION {[1..k -> Byte] : k \in 0..n}

(***************************************************************************)
(* HashEngine (hash.rs).  A digest is modelled collision-free: the bytes   *)
(* are read as the digits of a bijective numeral, so two different inputs  *)
(* never share a digest.  The two kinds never produce the same string      *)
(* (64 against 16 hex characters): Blake3 digests are even, Xxh3 odd.      *)
(***************************************************************************)
HashKind == {"Blake3", "Xxh3"}

Base == Cardinality(Byte) + 1

RECURSIVE Pow(_, _)
Pow(b, n) == IF n = 0 THEN 1 ELSE b * Pow(b, n - 1)

\* the digit a byte contributes under each algorithm
Digit(kind, b) == IF kind = "Blake3" THEN b + 1 ELSE Cardinality(Byte) - b

\* Hasher::new
Hasher_new(kind) == [kind |-> kind, acc |-> 0, n |-> 0]

\* the bytes of data folded into the running state, one at a time
RECURSIVE Hasher_feed(_, _)
Hasher_feed(h, data) ==
    IF data = <<>> THEN h
    ELSE Hasher_feed([h EXCEPT !.acc = h.acc + Digit(h.kind, Head(data)) * Pow(Base, h.n),
                               !.n = h.n + 1],
                     Tail(data))

\* faulty variant: every update restarts the hasher
Hasher_update_last(h, data) == Hasher_feed(Hasher_new(h.kind), data)

\* Hasher::update
Hasher_update(h, data) == Hasher_feed(h, data)

\* Hasher::finalize: the digest as text
Hasher_finalize(h) == IF h.kind = "Blake3" THEN 2 * h.acc ELSE 2 * h.acc + 1

\* blake3::hash(data).to_hex().to_string(), the one-shot form
RECURSIVE Blake3Acc(_)
Blake3Acc(s) == IF s = <<>> THEN 0 ELSE (Head(s) + 1) + Base * Blake3Acc(Tail(s))

blake3_hash(s) == 2 * Blake3Acc(s)

(***************************************************************************)
(* Compression (types/mod.rs, streams/chunk.rs).  A zstd frame is modelled *)
(* as a magic number, the content size, and the content; decoding checks   *)
(* all three, so bytes that are no frame fail to decode.                   *)
(***************************************************************************)
NoCompression == "None"
Compression == {"Zstd", "Xz", "Lz4"}
OptCompression == Compression \cup {NoCompression}

ZstdMagic == Cardinality(Byte) + 7

zstd_encode_all(raw) == <<ZstdMagic, Len(raw)>> \o raw

zstd_is_frame(body) ==
    /\ Len(body) >= 2
    /\ body[1] = ZstdMagic
    /\ body[2] = Len(body) - 2

zstd_decode_all(body) == SubSeq(body, 3, Len(body))

\* faulty variant: the zstd extension is spelled as the tool spells it
get_compression_extension_zst(compression) ==
    CASE compression = "Zstd" -> "zst"
      [] compression = "Lz4" -> "lz4"
      [] compression = "Xz" -> "xz"

\* get_compression_extension of streams/chunk.rs
get_compression_extension(compression) ==
    CASE compression = "Zstd" -> "zstd"
      [] compression = "Lz4" -> "lz4"
      [] compression = "Xz" -> "xz"

\* the extension a chunk name carries: none without compression
ChunkExt(compression) ==
    IF compression = NoCompression THEN "" ELSE get_compression_extension(compression)

(***************************************************************************)
(* Files.  A directory is a function from the names that exist to what is  *)
(* stored under them.                                                      *)
(***************************************************************************)
EmptyDir == [p \in {} |-> <<>>]

Exists(dir, p) == p \in DOMAIN dir

WriteFile(dir, p, c) == [q \in DOMAIN dir \cup {p} |-> IF q = p THEN c ELSE dir[q]]

RemoveFile(dir, p) == [q \in DOMAIN dir \ {p} |-> dir[q]]

\* faulty variant: a rename that removes an existing `to` and then gives up
StdRename_no_replace(dir, from, to) ==
    IF to \in DOMAIN dir THEN [q \in DOMAIN dir \ {from, to} |-> dir[q]]
    ELSE [q \in (DOMAIN dir \ {from}) \cup {to} |-> IF q = to THEN dir[from] ELSE dir[q]]

\* std::fs::rename(from, to): one step, replacing `to`
StdRename(dir, from, to) ==
    [q \in (DOMAIN dir \ {from}) \cup {to} |-> IF q = to THEN dir[from] ELSE dir[q]]

(***************************************************************************)
(* Results of the fallible operations.                                     *)
(***************************************************************************)
NoResult == [tag |-> "None", data |-> <<>>, expected |-> 0, actual |-> 0]
Ok(data) == [tag |-> "Ok", data |-> data, expected |-> 0, actual |-> 0]
HashError(expected, actual) ==
    [tag |-> "HashError", data |-> <<>>, expected |-> expected, actual |-> actual]
NetworkError == [tag |-> "NetworkError", data |-> <<>>, expected |-> 0, actual |-> 0]
IoError == [tag |-> "IoError", data |-> <<>>, expected |-> 0, actual |-> 0]
Panic == [tag |-> "Panic", data |-> <<>>, expected |-> 0, actual |-> 0]


(***************************************************************************)
(* State.                                                                  *)
(***************************************************************************)
VARIABLES
    \* ---- the repository (server side) -------------------------------
    repo,         \* {repo_path}/chunks: name -> payload, name = <<hash, extension>>
    chunks_dir,   \* whether {repo_path}/chunks exists
    compression,  \* the compression the calls are given
    hash_kind,    \* the HashKind the stream calls are given
    \* ---- one Chunk::create call followed by one Chunk::download -------
    raw_data,     \* create's input bytes
    c_pc,         \* where the create call is
    c_data,       \* the encoded payload create computed
    chunk,        \* the Chunk create returned
    response,     \* the server's answer to download's GET
    dl_result,    \* what download returned
    repo_before,  \* the repository as it was when create was called
    \* ---- one Stream::create call (streams/stream.rs) ------------------
    file,         \* the bytes of the source file
    file_mode,    \* its unix mode bits
    s_pc,         \* where the call is
    s_off,        \* how many bytes of the file have been read
    s_hasher,     \* the running whole-file hasher
    s_chunks,     \* the chunks pushed so far
    stream,       \* the Stream the call returned
    \* ---- a directory of the local file system ------------------------
    names,        \* the directory entries: name -> inode number
    inodes,       \* the inodes, by number: kind, data and mode of each
    \* ---- one fs::rename call and a reader of its target --------------
    platform,     \* "unix" (renameat2 with RENAME_EXCHANGE) or "other"
    rn_pc,        \* where the call is
    rn_is_dir,    \* its local is_dir
    rn_new,       \* what original_path held when the call began
    rn_old,       \* what new_path held when the call began, or Absent
    r_seen,       \* what the reader found at new_path when it last opened it
    \* ---- Stream::download calls into one store -----------------------
    impl,         \* which Stream::download runs: "streams" (streams/stream.rs,
                  \* from chunks) or "stream" (stream/mod.rs, one body)
    plain,        \* the bytes of the file the repository holds
    d_pc,         \* per call: where it is
    d_desc,       \* per call: the Stream it was called on
    d_fd,         \* per call: the inode its open temp file is, 0 when none
    d_i,          \* per call: how many chunks are done
    d_hasher,     \* per call: the running whole-stream hasher
    d_body,       \* per call: the body of the answer being read
    d_result,     \* per call: what it returned
    d_before,     \* per call: what the final name held when it began
    d_after,      \* per call: what the final name held when it ended
    d_corrupt,    \* per call: whether the server gave it a corrupted body
    d_log,        \* per call: the GETs it made, in order, with the status of each answer
    \* ---- Tree::create, Tree::download, Tree::deploy (tree/mod.rs) -----
    t_src,        \* the source directory Tree::create is called on
    t_ord,        \* the order read_dir yields the entries of each directory in
    t_pc,         \* which call runs, or how the last one ended
    t_tree,       \* the Tree that Tree::create returned
    t_tree2,      \* the Tree a second Tree::create of the same directory returned
    t_remote,     \* the stream directory of the repository: name -> file
    t_local,      \* the local stream directory: name -> file
    t_todo,       \* what the running download or deploy has still to do
    t_log,        \* the Stream downloads made so far, in order, with their results
    t_result,     \* what the last call returned
    t_cwd,        \* the working directory of the process
    t_xdev,       \* whether the store and the deploy path are on different file systems
    t_deploy,     \* the local file system outside the store: path -> entry
    \* ---- Stream::create calls into one stream directory (stream/mod.rs) --
    w_src,        \* per call: the bytes of its source file
    w_pc,         \* per call: where it is
    w_off,        \* per call: how many bytes of the source it has read
    w_hasher,     \* per call: the running hasher
    w_fd,         \* per call: the inode of the temp file it created, 0 when none
    w_shut,       \* per call: whether its writer was shut down
    w_result,     \* per call: what it returned
    \* ---- concurrent Chunk::create calls on the same bytes ---------------
    cp_pc,        \* per call: where it is
    cp_fd,        \* per call: the inode its fs::write has open, 0 when none
    cp_chunk,     \* per call: the Chunk it returned
    cp_result     \* per call: what it returned

cfgVars == <<compression, hash_kind>>
repoVars == <<repo, chunks_dir>>
chunkVars == <<raw_data, c_pc, c_data, chunk, response, dl_result, repo_before>>
createVars == <<file, file_mode, s_pc, s_off, s_hasher, s_chunks, stream>>

storeVars == <<names, inodes>>
renameVars == <<platform, rn_pc, rn_is_dir, rn_new, rn_old, r_seen>>

dlVars == <<impl, plain, d_pc, d_desc, d_fd, d_i, d_hasher, d_body, d_result,
            d_before, d_after, d_corrupt, d_log>>

treeVars == <<t_src, t_ord, t_pc, t_tree, t_tree2, t_remote, t_local, t_todo, t_log,
              t_result, t_cwd, t_xdev, t_deploy>>

writerVars == <<w_src, w_pc, w_off, w_hasher, w_fd, w_shut, w_result>>

pairVars == <<cp_pc, cp_fd, cp_chunk, cp_result>>

vars == <<cfgVars, repoVars, chunkVars, createVars, storeVars, renameVars, dlVars, treeVars,
          writerVars, pairVars>>

\* what each component's steps leave alone
chunkFrame == <<cfgVars, createVars, storeVars, renameVars, dlVars, treeVars, writerVars,
                pairVars>>
createFrame == <<cfgVars, chunkVars, storeVars, renameVars, dlVars, treeVars, writerVars,
                 pairVars>>
renameFrame == <<cfgVars, repoVars, chunkVars, createVars, dlVars, treeVars, writerVars,
                 pairVars>>
dlFrame == <<cfgVars, repoVars, chunkVars, createVars, renameVars, treeVars, writerVars,
             pairVars>>
treeFrame == <<hash_kind, repoVars, chunkVars, createVars, storeVars, renameVars, dlVars,
               writerVars, pairVars>>
writerFrame == <<cfgVars, repoVars, chunkVars, createVars, renameVars, dlVars, treeVars,
                 pairVars>>
pairFrame == <<cfgVars, repo, chunkVars, createVars, renameVars, dlVars, treeVars,
               writerVars>>

(***************************************************************************)
(* The values the variables of a component hold while it is not running.   *)
(***************************************************************************)
NoChunk == [hash |-> 0, disk_size |-> 0, network_size |-> 0]
NoResponse == [status |-> 0, body |-> <<>>]
NoStream == [filename |-> "", hash |-> 0, permission |-> 0, chunks |-> <<>>]

\* the chunk calls before they start
IdleChunk ==
    /\ raw_data = <<>>
    /\ c_pc = "idle"
    /\ c_data = <<>>
    /\ chunk = NoChunk
    /\ response = NoResponse
    /\ dl_result = NoResult
    /\ repo_before = EmptyDir

Absent == [kind |-> "absent", data |-> <<>>, mode |-> 0]
NotOpened == [kind |-> "unopened", data |-> <<>>, mode |-> 0]

\* the rename call before it starts
IdleRename ==
    /\ platform = "unix"
    /\ rn_pc = "idle"
    /\ rn_is_dir = FALSE
    /\ rn_new = Absent
    /\ rn_old = Absent
    /\ r_seen = NotOpened

\* the calls that download
Procs == {1, 2}

NoEntry == [ino |-> 0, entry |-> Absent]

\* the download calls before they start
IdleDownload ==
    /\ impl = "streams"
    /\ plain = <<>>
    /\ d_pc = [p \in Procs |-> "idle"]
    /\ d_desc = [p \in Procs |-> NoStream]
    /\ d_fd = [p \in Procs |-> 0]
    /\ d_i = [p \in Procs |-> 0]
    /\ d_hasher = [p \in Procs |-> Hasher_new("Blake3")]
    /\ d_body = [p \in Procs |-> <<>>]
    /\ d_result = [p \in Procs |-> NoResult]
    /\ d_before = [p \in Procs |-> NoEntry]
    /\ d_after = [p \in Procs |-> NoEntry]
    /\ d_corrupt = [p \in Procs |-> FALSE]
    /\ d_log = [p \in Procs |-> <<>>]

\* a store nothing was written to
IdleStore ==
    /\ names = [p \in {} |-> 0]
    /\ inodes = <<>>

\* the stream calls before they start
IdleCreate ==
    /\ file = <<>>
    /\ file_mode = 0
    /\ s_pc = "idle"
    /\ s_off = 0
    /\ s_hasher = Hasher_new("Blake3")
    /\ s_chunks = <<>>
    /\ stream = NoStream

\* a directory entry, or a file of a stream directory
Node(kind, data, mode, target, entries) ==
    [kind |-> kind, data |-> data, mode |-> mode, target |-> target, entries |-> entries]

NoEntries == [n \in {} |-> 0]
NoTree == [permissions |-> 0, streams |-> <<>>, subtrees |-> <<>>, symlinks |-> <<>>]
NoFiles == [n \in {} |-> 0]

\* the tree calls before they start
IdleTree ==
    /\ t_src = Node("dir", <<>>, 0, <<>>, NoEntries)
    /\ t_ord = <<>>
    /\ t_pc = "idle"
    /\ t_tree = NoTree
    /\ t_tree2 = NoTree
    /\ t_remote = NoFiles
    /\ t_local = NoFiles
    /\ t_todo = <<>>
    /\ t_log = <<>>
    /\ t_result = NoResult
    /\ t_cwd = <<>>
    /\ t_xdev = FALSE
    /\ t_deploy = NoFiles

\* the Stream::create calls of stream/mod.rs before they start
IdleWriter ==
    /\ w_src = [p \in Procs |-> <<>>]
    /\ w_pc = [p \in Procs |-> "idle"]
    /\ w_off = [p \in Procs |-> 0]
    /\ w_hasher = [p \in Procs |-> Hasher_new("Blake3")]
    /\ w_fd = [p \in Procs |-> 0]
    /\ w_shut = [p \in Procs |-> FALSE]
    /\ w_result = [p \in Procs |-> NoResult]

\* the concurrent Chunk::create calls before they start
IdlePair ==
    /\ cp_pc = [p \in Procs |-> "idle"]
    /\ cp_fd = [p \in Procs |-> 0]
    /\ cp_chunk = [p \in Procs |-> NoChunk]
    /\ cp_result = [p \in Procs |-> NoResult]

(***************************************************************************)
(* Chunk (streams/chunk.rs).                                               *)
(***************************************************************************)
\* chunks/<hash>[.<ext>], the published name
ChunkPath(hash, comp) == <<hash, ChunkExt(comp)>>

\* chunks/<hash>.tmp, the scratch name
ChunkPathTmp(hash) == <<hash, "tmp">>

\* the match of Chunk::create: todo!() for Lz4 and Xz
Chunk_create_panics(comp) == comp \in {"Lz4", "Xz"}

Chunk_encode(raw, comp) == IF comp = "Zstd" THEN zstd_encode_all(raw) ELSE raw

\* faulty variant: network_size taken from the raw bytes
Chunk_meta_rawsize(raw, data) ==
    [hash |-> blake3_hash(raw), network_size |-> Len(raw), disk_size |-> Len(raw)]

\* the Chunk that Chunk::create returns
Chunk_meta(raw, data) ==
    [hash |-> blake3_hash(raw), network_size |-> Len(data), disk_size |-> Len(raw)]

\* faulty variant: the bytes are returned without comparing the digests
Chunk_verify_unchecked(c, data) == Ok(data)

\* the tail of Chunk::download: recompute the digest and compare
Chunk_verify(c, data) ==
    IF blake3_hash(data) # c.hash
    THEN HashError(c.hash, blake3_hash(data))
    ELSE Ok(data)

\* the name Chunk::download asks the server for
Chunk_request(c, comp) == <<c.hash, ChunkExt(comp)>>

\* faulty variant: the frame header is returned with the content
Chunk_decode_keep_header(body, comp) == body

\* the decoded body, where decoding succeeds
Chunk_decode(body, comp) == IF comp = "Zstd" THEN zstd_decode_all(body) ELSE body

\* whether decoding the body fails (an I/O error)
Chunk_decode_fails(body, comp) == comp = "Zstd" /\ ~zstd_is_frame(body)

\* faulty variant: the status of the answer is not looked at
Chunk_download_any_status(c, resp, comp) ==
    IF Chunk_create_panics(comp) THEN Panic
    ELSE IF Chunk_decode_fails(resp.body, comp) THEN IoError
    ELSE Chunk_verify(c, Chunk_decode(resp.body, comp))

\* Chunk::download, given the server's answer
Chunk_download(c, resp, comp) ==
    IF resp.status # 200 THEN NetworkError
    ELSE IF Chunk_create_panics(comp) THEN Panic
    ELSE IF Chunk_decode_fails(resp.body, comp) THEN IoError
    ELSE Chunk_verify(c, Chunk_decode(resp.body, comp))

\* what a server may answer: any payload, well-formed or not, or a failure
Plain == BytesUpTo(MaxRawLen)
Bodies == Plain \cup {zstd_encode_all(x) : x \in Plain} \cup {<<ZstdMagic>>}
Responses == [status : {200}, body : Bodies] \cup {[status |-> 404, body |-> <<>>]}

\* the answer of a server that serves the repository's files
Served(dir, name) ==
    IF Exists(dir, name) THEN [status |-> 200, body |-> dir[name]]
    ELSE [status |-> 404, body |-> <<>>]

\* the descriptor download is called on: the one create returned, or, when
\* create returned none, the manifest's descriptor of the same bytes
DlChunk == IF c_pc = "created" THEN chunk ELSE Chunk_meta(raw_data, Chunk_encode(raw_data, compression))

\* prefixes of a payload: what an interrupted fs::write leaves behind
Prefixes(data) == {SubSeq(data, 1, k) : k \in 0..Len(data)}

\* the repositories an earlier run can have left for input raw under comp:
\* the chunk already published, a partially written scratch file, or both
EarlierRepo(raw, comp) ==
    LET h == blake3_hash(raw)
        d == Chunk_encode(raw, comp)
        pub == {EmptyDir, WriteFile(EmptyDir, ChunkPath(h, comp), d)}
    IN  pub \cup {WriteFile(r, ChunkPathTmp(h), t) : r \in pub, t \in Prefixes(d)}

InitChunk ==
    /\ IdleWriter
    /\ IdlePair
    /\ IdleTree
    /\ IdleCreate
    /\ IdleDownload
    /\ IdleStore
    /\ IdleRename
    /\ hash_kind = "Blake3"
    /\ raw_data \in BytesUpTo(MaxRawLen)
    /\ compression \in OptCompression
    /\ c_pc = "start"
    /\ c_data = <<>>
    /\ chunk = NoChunk
    /\ response = NoResponse
    /\ dl_result = NoResult
    /\ repo \in EarlierRepo(raw_data, compression)
    /\ repo_before = repo
    /\ chunks_dir = (repo # EmptyDir)

\* hash, paths and the encoded payload (chunk.rs 66-81)
Chunk_create_encode ==
    /\ c_pc = "start"
    /\ IF Chunk_create_panics(compression)
       THEN c_pc' = "panicked" /\ c_data' = c_data
       ELSE c_pc' = "mkdir" /\ c_data' = Chunk_encode(raw_data, compression)
    /\ UNCHANGED <<chunkFrame, repoVars, raw_data, chunk, response, dl_result, repo_before>>

\* create_dir_all when the directory is missing (chunk.rs 84-86)
Chunk_create_mkdir ==
    /\ c_pc = "mkdir"
    /\ chunks_dir' = TRUE
    /\ c_pc' = "write"
    /\ UNCHANGED <<chunkFrame, repo, raw_data, c_data, chunk, response, dl_result, repo_before>>

\* fs::write(&chunk_path_tmp, &data) (chunk.rs 88)
Chunk_create_write ==
    /\ c_pc = "write"
    /\ repo' = WriteFile(repo, ChunkPathTmp(blake3_hash(raw_data)), c_data)
    /\ c_pc' = "rename"
    /\ UNCHANGED <<chunkFrame, chunks_dir, raw_data, c_data, chunk, response, dl_result, repo_before>>

\* fs::rename(&chunk_path_tmp, chunk_path) and the returned Chunk (chunk.rs 89-97)
Chunk_create_rename ==
    /\ c_pc = "rename"
    /\ repo' = StdRename(repo, ChunkPathTmp(blake3_hash(raw_data)),
                         ChunkPath(blake3_hash(raw_data), compression))
    /\ chunk' = Chunk_meta(raw_data, c_data)
    /\ c_pc' = "created"
    /\ UNCHANGED <<chunkFrame, chunks_dir, raw_data, c_data, response, dl_result, repo_before>>

\* any of the three file-system calls fails: `?` returns the I/O error
Chunk_create_io_error ==
    /\ c_pc \in {"mkdir", "write", "rename"}
    /\ c_pc' = "failed"
    /\ UNCHANGED <<chunkFrame, repoVars, raw_data, c_data, chunk, response, dl_result, repo_before>>

\* one Chunk::download call, whatever the server answers
Chunk_download_call ==
    /\ c_pc \in {"created", "panicked", "failed"}
    /\ dl_result = NoResult
    /\ \E resp \in Responses \cup {Served(repo, Chunk_request(DlChunk, compression))} :
          /\ response' = resp
          /\ dl_result' = Chunk_download(DlChunk, resp, compression)
    /\ UNCHANGED <<chunkFrame, repoVars, raw_data, c_pc, c_data, chunk, repo_before>>

NextChunk ==
    \/ Chunk_create_encode
    \/ Chunk_create_mkdir
    \/ Chunk_create_write
    \/ Chunk_create_rename
    \/ Chunk_create_io_error
    \/ Chunk_download_call

SpecChunk == InitChunk /\ [][NextChunk]_vars


(***************************************************************************)
(* Claims about Chunk, under SpecChunk.                                    *)
(***************************************************************************)
\* what the body of the answer decodes to
DecodedBody == Chunk_decode(response.body, compression)

\* the answer carries a body that the implemented codecs decode
BodyDecodes ==
    /\ response.status = 200
    /\ ~Chunk_create_panics(compression)
    /\ ~Chunk_decode_fails(response.body, compression)

\* C5: Chunk::download returns Ok(bytes) only when the decoded body hashes to
\* chunk.hash, and the bytes are that decoded body; a decoded body that hashes
\* to anything else gives HashError(chunk.hash, recomputed hash) and no bytes.
C5_DownloadReturnsOnlyVerifiedBytes ==
    dl_result # NoResult =>
        /\ dl_result.tag = "Ok" =>
              /\ BodyDecodes
              /\ blake3_hash(DecodedBody) = DlChunk.hash
              /\ dl_result.data = DecodedBody
        /\ (BodyDecodes /\ blake3_hash(DecodedBody) # DlChunk.hash) =>
              dl_result = HashError(DlChunk.hash, blake3_hash(DecodedBody))

C5_Witness ==
    /\ dl_result.tag = "HashError"
    /\ compression = "Zstd"
    /\ BodyDecodes
    /\ Len(DecodedBody) > 0

\* C6: a chunk created from x and downloaded from a server that serves the
\* file create wrote comes back as exactly x.
C6_CreateThenDownloadRoundTrip ==
    (/\ c_pc = "created"
     /\ dl_result # NoResult
     /\ response = Served(repo, Chunk_request(chunk, compression)))
        => dl_result = Ok(raw_data)

C6_Witness ==
    /\ c_pc = "created"
    /\ compression = "Zstd"
    /\ Len(raw_data) > CHUNK_SIZE
    /\ response = Served(repo, Chunk_request(chunk, compression))
    /\ dl_result = Ok(raw_data)

CreatedPath == ChunkPath(blake3_hash(raw_data), compression)

\* C13: Chunk::create called when the chunk of the same bytes, repository
\* and compression is already published does not abort, keeps the
\* published file with the payload it had at every step, and returns the
\* Chunk the first call returned.
C13_CreateAgainKeepsPublishedChunk ==
    (Exists(repo_before, CreatedPath) /\ ~Chunk_create_panics(compression))
    => /\ c_pc # "panicked"
       /\ Exists(repo, CreatedPath)
       /\ repo[CreatedPath] = repo_before[CreatedPath]
       /\ c_pc = "created" =>
             chunk = Chunk_meta(raw_data, repo_before[CreatedPath])

C13_Witness ==
    /\ c_pc = "created"
    /\ compression = "Zstd"
    /\ Len(raw_data) > CHUNK_SIZE
    /\ Exists(repo_before, CreatedPath)
    /\ ~Exists(repo, ChunkPathTmp(blake3_hash(raw_data)))
    /\ repo[CreatedPath] = zstd_encode_all(raw_data)
    /\ chunk.network_size = Len(repo[CreatedPath])

(***************************************************************************)
(* The local file system: names bound to inodes.  An open handle is an     *)
(* inode number, so what is written through a handle lands in the inode    *)
(* whatever name it has by then.                                           *)
(***************************************************************************)
\* the mode of a newly created file or directory (0o644, 0o755 under umask 022)
NewMode(kind) == IF kind = "dir" THEN 493 ELSE 420

Inode(kind, data, mode) == [kind |-> kind, data |-> data, mode |-> mode]

\* what a name holds
Entry(ns, is, p) == is[ns[p]]

\* a new inode under a name that is free: File::create_new, create_dir_all
StoreCreate(ns, is, p, kind) ==
    [names |-> [q \in DOMAIN ns \cup {p} |-> IF q = p THEN Len(is) + 1 ELSE ns[q]],
     inodes |-> Append(is, Inode(kind, <<>>, NewMode(kind)))]

\* open with create and truncate: File::create, and the open of fs::write
StoreCreateTruncate(ns, is, p) ==
    IF p \in DOMAIN ns
    THEN [names |-> ns, inodes |-> [is EXCEPT ![ns[p]].data = <<>>]]
    ELSE StoreCreate(ns, is, p, "file")

\* faulty variant: the exchange leaves both names as they were
StoreExchange_noop(ns, a, b) == ns

\* renameat2(.., RENAME_EXCHANGE): the two names trade inodes in one step
StoreExchange(ns, a, b) ==
    [q \in DOMAIN ns |-> IF q = a THEN ns[b] ELSE IF q = b THEN ns[a] ELSE ns[q]]

\* rename(2): `to` takes the inode of `from`, `from` is gone, in one step
StoreRename(ns, from, to) ==
    [q \in (DOMAIN ns \ {from}) \cup {to} |-> IF q = to THEN ns[from] ELSE ns[q]]

\* unlink, or remove_dir_all of a directory
StoreRemove(ns, p) == [q \in DOMAIN ns \ {p} |-> ns[q]]

NoNames == [p \in {} |-> 0]

(***************************************************************************)
(* Stream::create (streams/stream.rs 78-116).                              *)
(***************************************************************************)
\* the modes a source file may carry: 0o644, 0o755, 0o444, 0o600
Modes == {420, 493, 292, 384}

Bit(m, k) == (m \div Pow(2, k)) % 2

\* Permissions::set_readonly(true): the three write bits (0o222) are cleared
set_readonly(m) == m - (Bit(m, 1) * 2 + Bit(m, 4) * 16 + Bit(m, 7) * 128)

\* faulty variant: one byte short of CHUNK_SIZE is taken
Stream_read_amount_short(remaining) ==
    IF remaining < CHUNK_SIZE - 1 THEN remaining ELSE CHUNK_SIZE - 1

\* faulty variant: a read that cannot fill the buffer returns nothing
Stream_read_amount_full(remaining) ==
    IF remaining < CHUNK_SIZE THEN 0 ELSE CHUNK_SIZE

\* file.take(CHUNK_SIZE).read_to_end(..): up to CHUNK_SIZE bytes, fewer at the end
Stream_read_amount(remaining) ==
    IF remaining < CHUNK_SIZE THEN remaining ELSE CHUNK_SIZE

\* Chunk::create as one call: the published directory
Chunk_create_repo(dir, raw, comp) ==
    StdRename(WriteFile(dir, ChunkPathTmp(blake3_hash(raw)), Chunk_encode(raw, comp)),
              ChunkPathTmp(blake3_hash(raw)),
              ChunkPath(blake3_hash(raw), comp))

InitCreate ==
    /\ IdleWriter
    /\ IdlePair
    /\ IdleTree
    /\ IdleChunk
    /\ IdleDownload
    /\ IdleStore
    /\ IdleRename
    /\ compression \in OptCompression
    /\ hash_kind \in HashKind
    /\ repo = EmptyDir
    /\ chunks_dir = FALSE
    /\ file \in BytesUpTo(MaxFileLen)
    /\ file_mode \in Modes
    /\ s_pc = "open"
    /\ s_off = 0
    /\ s_hasher = Hasher_new("Blake3")
    /\ s_chunks = <<>>
    /\ stream = NoStream

\* File::open, lock, metadata, and the fresh hasher (stream.rs 84-94)
Stream_create_open ==
    /\ s_pc = "open"
    /\ s_hasher' = Hasher_new(hash_kind)
    /\ s_pc' = "read"
    /\ UNCHANGED <<createFrame, repoVars, file, file_mode, s_off, s_chunks, stream>>

\* one turn of the loop that reads bytes: hash them, create their chunk,
\* push it (stream.rs 96-106)
Stream_create_chunk ==
    /\ s_pc = "read"
    /\ Stream_read_amount(Len(file) - s_off) > 0
    /\ LET amount == Stream_read_amount(Len(file) - s_off)
           chunk_buf == SubSeq(file, s_off + 1, s_off + amount)
       IN  /\ s_off' = s_off + amount
           /\ IF Chunk_create_panics(compression)
              THEN /\ s_pc' = "panicked"
                   /\ s_hasher' = Hasher_update(s_hasher, chunk_buf)
                   /\ UNCHANGED <<repoVars, s_chunks>>
              ELSE /\ s_pc' = "read"
                   /\ s_hasher' = Hasher_update(s_hasher, chunk_buf)
                   /\ repo' = Chunk_create_repo(repo, chunk_buf, compression)
                   /\ chunks_dir' = TRUE
                   /\ s_chunks' = Append(s_chunks,
                                         Chunk_meta(chunk_buf, Chunk_encode(chunk_buf, compression)))
    /\ UNCHANGED <<createFrame, file, file_mode, stream>>

\* the turn that reads nothing: leave the loop and build the Stream
\* (stream.rs 99-115)
Stream_create_finish ==
    /\ s_pc = "read"
    /\ Stream_read_amount(Len(file) - s_off) = 0
    /\ stream' = [filename |-> "file",
                  hash |-> Hasher_finalize(s_hasher),
                  permission |-> set_readonly(file_mode),
                  chunks |-> s_chunks]
    /\ s_pc' = "done"
    /\ UNCHANGED <<createFrame, repoVars, file, file_mode, s_off, s_hasher, s_chunks>>

\* open, lock, metadata, a read or Chunk::create fails: `?` returns the error
Stream_create_io_error ==
    /\ s_pc \in {"open", "read"}
    /\ s_pc' = "failed"
    /\ UNCHANGED <<createFrame, repoVars, file, file_mode, s_off, s_hasher, s_chunks, stream>>

NextCreate ==
    \/ Stream_create_open
    \/ Stream_create_chunk
    \/ Stream_create_finish
    \/ Stream_create_io_error

SpecCreate == InitCreate /\ [][NextCreate]_vars

(***************************************************************************)
(* Claims about Stream::create, under SpecCreate.                          *)
(***************************************************************************)
\* the plaintext of a chunk, read back from the file published for it
ChunkPlain(c) == Chunk_decode(repo[ChunkPath(c.hash, compression)], compression)

RECURSIVE ConcatPlain(_)
ConcatPlain(cs) == IF cs = <<>> THEN <<>> ELSE ChunkPlain(Head(cs)) \o ConcatPlain(Tail(cs))

\* the digest of s under kind, computed in one pass over the whole input
RECURSIVE DigestAcc(_, _)
DigestAcc(kind, s) ==
    IF s = <<>> THEN 0 ELSE Digit(kind, Head(s)) + Base * DigestAcc(kind, Tail(s))

HashOf(kind, s) == IF kind = "Blake3" THEN 2 * DigestAcc(kind, s) ELSE 2 * DigestAcc(kind, s) + 1

CeilDiv(n, d) == (n + d - 1) \div d

\* C8: the chunks of a created Stream are full except the last, which holds
\* 1..CHUNK_SIZE bytes; there are ceil(n / CHUNK_SIZE) of them; their
\* plaintexts, in list order, concatenate to the file.
C8_CreateSplitsIntoFullChunks ==
    s_pc = "done" =>
        /\ Len(stream.chunks) = CeilDiv(Len(file), CHUNK_SIZE)
        /\ \A i \in 1..Len(stream.chunks) :
              /\ Exists(repo, ChunkPath(stream.chunks[i].hash, compression))
              /\ Len(ChunkPlain(stream.chunks[i])) = stream.chunks[i].disk_size
              /\ i < Len(stream.chunks) => stream.chunks[i].disk_size = CHUNK_SIZE
              /\ stream.chunks[i].disk_size \in 1..CHUNK_SIZE
        /\ ConcatPlain(stream.chunks) = file

C8_Witness ==
    /\ s_pc = "done"
    /\ Len(file) = CHUNK_SIZE + 1
    /\ Len(stream.chunks) = 2
    /\ compression = "Zstd"

\* C9: the hash of a created Stream is the digest of the concatenation, in
\* list order, of its chunks' plaintexts.
C9_StreamHashIsDigestOfConcatenation ==
    s_pc = "done" => stream.hash = HashOf(hash_kind, ConcatPlain(stream.chunks))

C9_Witness ==
    /\ s_pc = "done"
    /\ Len(stream.chunks) >= 2
    /\ hash_kind = "Xxh3"
    /\ stream.hash = HashOf(hash_kind, file)


(***************************************************************************)
(* fs::rename (fs.rs 139-187), the same code as rename_atomic              *)
(* (utils/mod.rs 5-33), one system call per step, with a reader that may   *)
(* open new_path between any two steps.                                    *)
(***************************************************************************)
RnOriginal == <<"target", "new">>
RnTarget == <<"target", "">>

Kinds == {"file", "dir"}

\* what the reader finds under a name
Seen(ns, is, p) == IF p \in DOMAIN ns THEN Entry(ns, is, p) ELSE Absent

InitRename ==
    /\ IdleWriter
    /\ IdlePair
    /\ IdleTree
    /\ IdleChunk
    /\ IdleDownload
    /\ IdleCreate
    /\ compression = NoCompression
    /\ hash_kind = "Blake3"
    /\ repo = EmptyDir
    /\ chunks_dir = FALSE
    /\ platform \in {"unix", "other"}
    /\ rn_pc = IF platform = "unix" THEN "meta" ELSE "nx_remove"
    /\ rn_is_dir = FALSE
    /\ r_seen = NotOpened
    /\ \E nk \in Kinds, nd \in BytesUpTo(1) :
          /\ rn_new = Inode(nk, nd, NewMode(nk))
          /\ \/ /\ rn_old = Absent
                /\ inodes = <<rn_new>>
                /\ names = (RnOriginal :> 1)
             \/ \E ok \in Kinds, od \in BytesUpTo(1) :
                   /\ rn_old = Inode(ok, od, NewMode(ok))
                   /\ inodes = <<rn_new, rn_old>>
                   /\ names = (RnOriginal :> 1) @@ (RnTarget :> 2)

\* original_path.metadata()?.is_dir() (fs.rs 144)
rename_metadata ==
    /\ rn_pc = "meta"
    /\ rn_is_dir' = (Entry(names, inodes, RnOriginal).kind = "dir")
    /\ rn_pc' = "place"
    /\ UNCHANGED <<renameFrame, storeVars, platform, rn_new, rn_old, r_seen>>

\* the placeholder under new_path when nothing is there (fs.rs 146-152)
rename_placeholder ==
    /\ rn_pc = "place"
    /\ IF RnTarget \in DOMAIN names
       THEN UNCHANGED storeVars
       ELSE LET st == StoreCreate(names, inodes, RnTarget, IF rn_is_dir THEN "dir" ELSE "file")
            IN  names' = st.names /\ inodes' = st.inodes
    /\ rn_pc' = "xchg"
    /\ UNCHANGED <<renameFrame, platform, rn_is_dir, rn_new, rn_old, r_seen>>

\* renameat2(.., RENAME_EXCHANGE) (fs.rs 154-160)
rename_exchange ==
    /\ rn_pc = "xchg"
    /\ names' = StoreExchange(names, RnOriginal, RnTarget)
    /\ rn_pc' = "remove"
    /\ UNCHANGED <<renameFrame, inodes, platform, rn_is_dir, rn_new, rn_old, r_seen>>

\* remove what original_path holds now; remove_file fails on a directory
\* and remove_dir_all on a file (fs.rs 162-170)
rename_remove ==
    /\ rn_pc = "remove"
    /\ IF RnOriginal \notin DOMAIN names
       THEN rn_pc' = "ok" /\ UNCHANGED names
       ELSE IF rn_is_dir = (Entry(names, inodes, RnOriginal).kind = "dir")
            THEN rn_pc' = "ok" /\ names' = StoreRemove(names, RnOriginal)
            ELSE rn_pc' = "err" /\ UNCHANGED names
    /\ UNCHANGED <<renameFrame, inodes, platform, rn_is_dir, rn_new, rn_old, r_seen>>

\* without the exchange primitive: remove what new_path holds (fs.rs 176-182)
rename_other_remove ==
    /\ rn_pc = "nx_remove"
    /\ names' = IF RnTarget \in DOMAIN names THEN StoreRemove(names, RnTarget) ELSE names
    /\ rn_pc' = "nx_rename"
    /\ UNCHANGED <<renameFrame, inodes, platform, rn_is_dir, rn_new, rn_old, r_seen>>

\* without the exchange primitive: std::fs::rename (fs.rs 184-186)
rename_other_rename ==
    /\ rn_pc = "nx_rename"
    /\ names' = StoreRename(names, RnOriginal, RnTarget)
    /\ rn_pc' = "ok"
    /\ UNCHANGED <<renameFrame, inodes, platform, rn_is_dir, rn_new, rn_old, r_seen>>

\* a system call of rename fails: `?` returns the error
rename_io_error ==
    /\ rn_pc \in {"meta", "place", "xchg", "remove", "nx_remove", "nx_rename"}
    /\ rn_pc' = "err"
    /\ UNCHANGED <<renameFrame, storeVars, platform, rn_is_dir, rn_new, rn_old, r_seen>>

\* another process opens new_path and reads it
Reader_open ==
    /\ r_seen' = Seen(names, inodes, RnTarget)
    /\ r_seen' # r_seen
    /\ UNCHANGED <<renameFrame, storeVars, platform, rn_pc, rn_is_dir, rn_new, rn_old>>

NextRename ==
    \/ rename_metadata
    \/ rename_placeholder
    \/ rename_exchange
    \/ rename_remove
    \/ rename_other_remove
    \/ rename_other_rename
    \/ rename_io_error
    \/ Reader_open

SpecRename == InitRename /\ [][NextRename]_vars

(***************************************************************************)
(* Claims about rename, under SpecRename.                                  *)
(***************************************************************************)
\* C3 (as stated): with the exchange primitive, whoever opens new_path finds
\* the complete old artifact (or nothing, when there was none) or the
\* complete new artifact, never anything else.
C3_ReaderSeesOldOrNew ==
    platform = "unix" => r_seen \in {NotOpened, rn_old, rn_new}

\* C4: when rename returns Ok, new_path holds the very file original_path
\* held before the call, original_path is gone, and no name holds the file
\* new_path held before.
C4_RenameMovesNewOverOld ==
    rn_pc = "ok" =>
        /\ RnTarget \in DOMAIN names
        /\ names[RnTarget] = 1
        /\ Entry(names, inodes, RnTarget) = rn_new
        /\ RnOriginal \notin DOMAIN names
        /\ \A q \in DOMAIN names : names[q] = 1

C4_Witness ==
    /\ rn_pc = "ok"
    /\ platform = "unix"
    /\ rn_old # Absent
    /\ rn_old.data # rn_new.data
    /\ Entry(names, inodes, RnTarget) = rn_new


(***************************************************************************)
(* Stream::download.  Two implementations are in the repository:           *)
(*   "streams"  streams/stream.rs 13-59: the file is fetched chunk by      *)
(*              chunk, each verified by Chunk::download, and published     *)
(*              with std::fs::rename when the final name is free;          *)
(*   "stream"   stream/mod.rs 24-78: the file is fetched as one body,      *)
(*              decoded while it arrives, and published with fs::rename    *)
(*              (placeholder, exchange, remove).                           *)
(* Calls run one after the other into the same store; a call may be        *)
(* killed between any two steps, and any file-system call may fail.        *)
(***************************************************************************)
\* a different byte sequence of the same length (of length 1 for the empty one)
Corrupt(x) == IF x = <<>> THEN <<0>> ELSE <<1 - Head(x)>> \o Tail(x)

\* the slices Stream::create cuts a file into
RECURSIVE Split(_)
Split(f) ==
    IF f = <<>> THEN <<>>
    ELSE <<SubSeq(f, 1, Stream_read_amount(Len(f)))>>
             \o Split(SubSeq(f, Stream_read_amount(Len(f)) + 1, Len(f)))

\* the Stream that describes file f, with the whole-file hash of `hashed`
Stream_of(f, hashed, kind, comp) ==
    [filename |-> "file",
     hash |-> HashOf(kind, hashed),
     permission |-> 420,
     chunks |-> [i \in 1..Len(Split(f)) |->
                    Chunk_meta(Split(f)[i], Chunk_encode(Split(f)[i], comp))]]

\* the Streams a call may be given: the one Stream::create made of the
\* file, and one whose hash field is the digest of other bytes
Descs == {Stream_of(plain, plain, hash_kind, compression),
          Stream_of(plain, Corrupt(plain), hash_kind, compression)}

\* Stream::get_raw_filename: the hash followed by the permission
get_raw_filename(st) == <<st.hash, st.permission>>

\* the name of a stream's file in the store
StoreName(st) == IF impl = "streams" THEN get_raw_filename(st) ELSE <<st.hash>>

FinalPath(st) == <<StoreName(st), "">>

\* add_extension(".tmp") in streams/stream.rs, set_extension("tmp") in stream/mod.rs
TmpPath(st) == <<StoreName(st), IF impl = "streams" THEN "..tmp" ELSE ".tmp">>

IsFinalName(n) == n[2] = ""

\* what a name holds: the inode and its state
Held(ns, is, path) ==
    IF path \in DOMAIN ns THEN [ino |-> ns[path], entry |-> is[ns[path]]] ELSE NoEntry

\* faulty variant: the bytes are put in front of what the file holds
WriteAt_front(data, off, bytes) == bytes \o data

\* write_all through a handle whose position is off
WriteAt(data, off, bytes) ==
    [k \in 1..(IF Len(data) > off + Len(bytes) THEN Len(data) ELSE off + Len(bytes)) |->
        IF k > off /\ k <= off + Len(bytes) THEN bytes[k - off]
        ELSE IF k <= Len(data) THEN data[k] ELSE 0]

\* ---- the streaming codecs of compression.rs ----------------------------
Magic(comp) ==
    CASE comp = "Zstd" -> ZstdMagic
      [] comp = "Lz4" -> ZstdMagic + 1
      [] comp = "Xz" -> ZstdMagic + 2

\* CompressionKind::compress, written to the end and shut down
Codec_encode(comp, x) == IF comp = NoCompression THEN x ELSE <<Magic(comp), Len(x)>> \o x

Codec_header_ok(comp, body) ==
    comp = NoCompression \/ (Len(body) >= 2 /\ body[1] = Magic(comp))

\* the bytes CompressionKind::decompress yields before it ends or fails
Codec_content(comp, body) ==
    IF comp = NoCompression THEN body
    ELSE IF ~Codec_header_ok(comp, body) THEN <<>>
    ELSE SubSeq(body, 3, IF body[2] < Len(body) - 2 THEN body[2] + 2 ELSE Len(body))

\* whether the decoder ends with a read of 0 bytes rather than an error
Codec_clean(comp, body) ==
    comp = NoCompression \/ (Codec_header_ok(comp, body) /\ body[2] = Len(body) - 2)

\* ---- what the server may answer ----------------------------------------
\* to the GET of the chunk with plaintext x
ChunkResponses(x) ==
    {[status |-> 200, body |-> Chunk_encode(x, compression)],
     [status |-> 200, body |-> Chunk_encode(Corrupt(x), compression)],
     [status |-> 404, body |-> <<>>]}
    \cup (IF compression = "Zstd" THEN {[status |-> 200, body |-> <<ZstdMagic>>]} ELSE {})

Front(x) == SubSeq(x, 1, Len(x) - 1)

\* to the GET of the whole stream
StreamResponses ==
    {[status |-> 200, body |-> Codec_encode(compression, plain)],
     [status |-> 200, body |-> Codec_encode(compression, Corrupt(plain))],
     [status |-> 200, body |-> Front(Codec_encode(compression, plain))],
     [status |-> 404, body |-> <<>>]}

\* ---- the calls ----------------------------------------------------------
RunningPcs == {"a_create", "a_lock", "a_chunk", "a_cleanup", "a_perms",
               "a_exists", "a_rename",
               "b_get", "b_create", "b_read", "b_cleanup",
               "r_meta", "r_place", "r_xchg", "r_rm"}

\* the steps that are a file-system call, which may fail
SyscallPcs == {"a_create", "a_lock", "a_chunk", "a_cleanup", "a_perms", "a_rename",
               "b_create", "b_read", "b_cleanup", "r_meta", "r_place", "r_xchg", "r_rm"}

\* the pcs at which a call of streams/stream.rs holds the lock on its temp file
LockedPcs == {"a_chunk", "a_cleanup", "a_perms", "a_exists", "a_rename"}

\* call p goes to pc
Goto(p, pc) == d_pc' = [d_pc EXCEPT ![p] = pc]

\* call p ends with result res, the directory being ns, is from then on
Ended(p, res, ns, is) ==
    /\ d_pc' = [d_pc EXCEPT ![p] = "returned"]
    /\ d_result' = [d_result EXCEPT ![p] = res]
    /\ d_fd' = [d_fd EXCEPT ![p] = 0]
    /\ d_after' = [d_after EXCEPT ![p] = Held(ns, is, FinalPath(d_desc[p]))]

\* faulty variant: the whole-stream digest is not compared
Stream_hash_matches_always(st, digest) == TRUE

\* the comparison of the whole-stream digest with the Stream's hash
\* (streams/stream.rs 42, stream/mod.rs 71)
Stream_hash_matches(st, digest) == digest = st.hash

InitDownload ==
    /\ IdleWriter
    /\ IdlePair
    /\ IdleTree
    /\ IdleChunk
    /\ IdleCreate
    /\ IdleRename
    /\ IdleStore
    /\ repo = EmptyDir
    /\ chunks_dir = FALSE
    /\ impl \in {"streams", "stream"}
    /\ compression \in {NoCompression, "Zstd", "Lz4"}
    /\ hash_kind \in (IF impl = "streams" THEN HashKind ELSE {"Blake3"})
    /\ plain \in BytesUpTo(MaxDlLen)
    /\ d_pc = [p \in Procs |-> "idle"]
    /\ d_desc = [p \in Procs |-> NoStream]
    /\ d_fd = [p \in Procs |-> 0]
    /\ d_i = [p \in Procs |-> 0]
    /\ d_hasher = [p \in Procs |-> Hasher_new("Blake3")]
    /\ d_body = [p \in Procs |-> <<>>]
    /\ d_result = [p \in Procs |-> NoResult]
    /\ d_before = [p \in Procs |-> NoEntry]
    /\ d_after = [p \in Procs |-> NoEntry]
    /\ d_corrupt = [p \in Procs |-> FALSE]
    /\ d_log = [p \in Procs |-> <<>>]

\* Stream::download is called on a Stream, once every earlier call has ended
Download_start(p) ==
    /\ d_pc[p] = "idle"
    /\ \A q \in Procs : q < p => d_pc[q] \in {"returned", "crashed", "panicked"}
    /\ \E st \in Descs :
          /\ d_desc' = [d_desc EXCEPT ![p] = st]
          /\ d_before' = [d_before EXCEPT ![p] = Held(names, inodes, FinalPath(st))]
    /\ d_hasher' = [d_hasher EXCEPT ![p] =
                       Hasher_new(IF impl = "streams" THEN hash_kind ELSE "Blake3")]
    /\ Goto(p, IF impl = "streams" THEN "a_create" ELSE "b_get")
    /\ UNCHANGED <<dlFrame, d_log, storeVars, impl, plain, d_fd, d_i, d_body, d_result,
                   d_after, d_corrupt>>


\* ---- streams/stream.rs --------------------------------------------------
\* File::create(&stream_path_tmp): a new file, or the old one truncated
\* (stream.rs 26)
Streams_create_tmp(p) ==
    /\ d_pc[p] = "a_create"
    /\ LET st == StoreCreateTruncate(names, inodes, TmpPath(d_desc[p]))
       IN  /\ names' = st.names
           /\ inodes' = st.inodes
           /\ d_fd' = [d_fd EXCEPT ![p] = st.names[TmpPath(d_desc[p])]]
    /\ Goto(p, "a_lock")
    /\ UNCHANGED <<dlFrame, d_log, impl, plain, d_desc, d_i, d_hasher, d_body, d_result,
                   d_before, d_after, d_corrupt>>

\* file.lock(): waits while another call holds the lock on the same file
\* (stream.rs 27)
Streams_lock(p) ==
    /\ d_pc[p] = "a_lock"
    /\ \A q \in Procs \ {p} : ~(d_pc[q] \in LockedPcs /\ d_fd[q] = d_fd[p])
    /\ Goto(p, "a_chunk")
    /\ UNCHANGED <<dlFrame, d_log, storeVars, impl, plain, d_desc, d_fd, d_i, d_hasher, d_body,
                   d_result, d_before, d_after, d_corrupt>>

\* one turn of the loop over self.chunks: download the chunk, append its
\* bytes to the temp file and feed them to the hasher; an error returns,
\* leaving the temp file (stream.rs 32-38)
Streams_chunk(p) ==
    /\ d_pc[p] = "a_chunk"
    /\ d_i[p] < Len(d_desc[p].chunks)
    /\ \E resp \in ChunkResponses(Split(plain)[d_i[p] + 1]) :
          LET res == Chunk_download(d_desc[p].chunks[d_i[p] + 1], resp, compression)
          IN  /\ d_corrupt' = [d_corrupt EXCEPT ![p] = @ \/ res.tag = "HashError"]
              /\ d_log' = [d_log EXCEPT ![p] =
                              Append(@, [chunk |-> d_i[p] + 1, status |-> resp.status])]
              /\ CASE res.tag = "Ok" ->
                        /\ inodes' = [inodes EXCEPT ![d_fd[p]].data =
                                         WriteAt(@, d_hasher[p].n, res.data)]
                        /\ d_hasher' = [d_hasher EXCEPT ![p] = Hasher_update(@, res.data)]
                        /\ d_i' = [d_i EXCEPT ![p] = @ + 1]
                        /\ UNCHANGED <<d_pc, d_result, d_fd, d_after>>
                   [] res.tag = "Panic" ->
                        /\ d_pc' = [d_pc EXCEPT ![p] = "panicked"]
                        /\ d_fd' = [d_fd EXCEPT ![p] = 0]
                        /\ d_after' = [d_after EXCEPT ![p] =
                                          Held(names, inodes, FinalPath(d_desc[p]))]
                        /\ UNCHANGED <<inodes, d_hasher, d_i, d_result>>
                   [] OTHER ->
                        /\ Ended(p, res, names, inodes)
                        /\ UNCHANGED <<inodes, d_hasher, d_i>>
    /\ UNCHANGED <<dlFrame, names, impl, plain, d_desc, d_body, d_before>>

\* after the last chunk: compare the whole-stream digest (stream.rs 41-42)
Streams_verify(p) ==
    /\ d_pc[p] = "a_chunk"
    /\ d_i[p] = Len(d_desc[p].chunks)
    /\ Goto(p, IF Stream_hash_matches(d_desc[p], Hasher_finalize(d_hasher[p]))
               THEN "a_perms" ELSE "a_cleanup")
    /\ UNCHANGED <<dlFrame, d_log, storeVars, impl, plain, d_desc, d_fd, d_i, d_hasher, d_body,
                   d_result, d_before, d_after, d_corrupt>>

\* on a mismatch: remove the temp file and return the hash error
\* (stream.rs 43-44)
Streams_cleanup(p) ==
    /\ d_pc[p] = "a_cleanup"
    /\ TmpPath(d_desc[p]) \in DOMAIN names
    /\ names' = StoreRemove(names, TmpPath(d_desc[p]))
    /\ Ended(p, HashError(d_desc[p].hash, Hasher_finalize(d_hasher[p])), names', inodes)
    /\ UNCHANGED <<dlFrame, d_log, inodes, impl, plain, d_desc, d_i, d_hasher, d_body,
                   d_before, d_corrupt>>

\* set_mode(self.permission), set_readonly(true), set_permissions through
\* the handle (stream.rs 48-52)
Streams_perms(p) ==
    /\ d_pc[p] = "a_perms"
    /\ inodes' = [inodes EXCEPT ![d_fd[p]].mode = set_readonly(d_desc[p].permission)]
    /\ Goto(p, "a_exists")
    /\ UNCHANGED <<dlFrame, d_log, names, impl, plain, d_desc, d_fd, d_i, d_hasher, d_body,
                   d_result, d_before, d_after, d_corrupt>>

\* if !stream_path.exists(): otherwise return Ok at once (stream.rs 54, 58)
Streams_exists(p) ==
    /\ d_pc[p] = "a_exists"
    /\ IF FinalPath(d_desc[p]) \in DOMAIN names
       THEN Ended(p, Ok(<<>>), names, inodes)
       ELSE Goto(p, "a_rename") /\ UNCHANGED <<d_result, d_fd, d_after>>
    /\ UNCHANGED <<dlFrame, d_log, storeVars, impl, plain, d_desc, d_i, d_hasher, d_body,
                   d_before, d_corrupt>>

\* std::fs::rename(stream_path_tmp, stream_path) and Ok (stream.rs 55-58)
Streams_rename(p) ==
    /\ d_pc[p] = "a_rename"
    /\ TmpPath(d_desc[p]) \in DOMAIN names
    /\ names' = StoreRename(names, TmpPath(d_desc[p]), FinalPath(d_desc[p]))
    /\ Ended(p, Ok(<<>>), names', inodes)
    /\ UNCHANGED <<dlFrame, d_log, inodes, impl, plain, d_desc, d_i, d_hasher, d_body,
                   d_before, d_corrupt>>


\* ---- stream/mod.rs ------------------------------------------------------
\* reqwest::get and error_for_status: a status that is no success is a
\* network error (mod.rs 30-37)
Stream_get(p) ==
    /\ d_pc[p] = "b_get"
    /\ \E resp \in StreamResponses :
          /\ d_log' = [d_log EXCEPT ![p] = Append(@, [chunk |-> 0, status |-> resp.status])]
          /\ IF resp.status # 200
             THEN /\ Ended(p, NetworkError, names, inodes)
                  /\ UNCHANGED <<d_body, d_corrupt>>
             ELSE /\ Goto(p, "b_create")
                  /\ d_body' = [d_body EXCEPT ![p] = resp.body]
                  /\ d_corrupt' = [d_corrupt EXCEPT ![p] =
                        /\ Codec_clean(compression, resp.body)
                        /\ blake3_hash(Codec_content(compression, resp.body)) # d_desc[p].hash]
                  /\ UNCHANGED <<d_result, d_fd, d_after>>
    /\ UNCHANGED <<dlFrame, storeVars, impl, plain, d_desc, d_i, d_hasher, d_before>>

\* fs::File::create_new(&tmp_file_path): fails when the name exists
\* (mod.rs 39-42)
Stream_create_new(p) ==
    /\ d_pc[p] = "b_create"
    /\ IF TmpPath(d_desc[p]) \in DOMAIN names
       THEN /\ Ended(p, IoError, names, inodes)
            /\ UNCHANGED storeVars
       ELSE LET st == StoreCreate(names, inodes, TmpPath(d_desc[p]), "file")
            IN  /\ names' = st.names
                /\ inodes' = st.inodes
                /\ d_fd' = [d_fd EXCEPT ![p] = st.names[TmpPath(d_desc[p])]]
                /\ Goto(p, "b_read")
                /\ UNCHANGED <<d_result, d_after>>
    /\ UNCHANGED <<dlFrame, d_log, impl, plain, d_desc, d_i, d_hasher, d_body, d_before, d_corrupt>>

\* one turn of the read loop that gets bytes: write them to the temp file
\* and feed them to the hasher (mod.rs 57-67)
Stream_read(p) ==
    /\ d_pc[p] = "b_read"
    /\ LET content == Codec_content(compression, d_body[p])
           done == d_hasher[p].n
       IN  /\ done < Len(content)
           /\ \E n \in 1..READ_BUF :
                 /\ done + n <= Len(content)
                 /\ inodes' = [inodes EXCEPT ![d_fd[p]].data =
                                  WriteAt(@, done, SubSeq(content, done + 1, done + n))]
                 /\ d_hasher' = [d_hasher EXCEPT ![p] =
                                    Hasher_update(@, SubSeq(content, done + 1, done + n))]
    /\ UNCHANGED <<dlFrame, d_log, names, impl, plain, d_pc, d_desc, d_fd, d_i, d_body, d_result,
                   d_before, d_after, d_corrupt>>

\* the read that gets nothing more: the decoder fails (`?` returns the
\* error, leaving the temp file) or ends, and then the digests are
\* compared (mod.rs 59-71)
Stream_read_end(p) ==
    /\ d_pc[p] = "b_read"
    /\ d_hasher[p].n = Len(Codec_content(compression, d_body[p]))
    /\ IF ~Codec_clean(compression, d_body[p])
       THEN Ended(p, IoError, names, inodes)
       ELSE /\ Goto(p, IF Stream_hash_matches(d_desc[p], Hasher_finalize(d_hasher[p]))
                       THEN "r_meta" ELSE "b_cleanup")
            /\ UNCHANGED <<d_result, d_fd, d_after>>
    /\ UNCHANGED <<dlFrame, d_log, storeVars, impl, plain, d_desc, d_i, d_hasher, d_body,
                   d_before, d_corrupt>>

\* on a mismatch: remove the temp file and return the hash error
\* (mod.rs 74-76)
Stream_cleanup(p) ==
    /\ d_pc[p] = "b_cleanup"
    /\ TmpPath(d_desc[p]) \in DOMAIN names
    /\ names' = StoreRemove(names, TmpPath(d_desc[p]))
    /\ Ended(p, HashError(d_desc[p].hash, Hasher_finalize(d_hasher[p])), names', inodes)
    /\ UNCHANGED <<dlFrame, d_log, inodes, impl, plain, d_desc, d_i, d_hasher, d_body,
                   d_before, d_corrupt>>

\* fs::rename(&tmp_file_path, &file_path), step 1: metadata of the temp
\* file (mod.rs 72, fs.rs 144)
Stream_rename_metadata(p) ==
    /\ d_pc[p] = "r_meta"
    /\ TmpPath(d_desc[p]) \in DOMAIN names
    /\ Goto(p, "r_place")
    /\ UNCHANGED <<dlFrame, d_log, storeVars, impl, plain, d_desc, d_fd, d_i, d_hasher, d_body,
                   d_result, d_before, d_after, d_corrupt>>

\* step 2: an empty file under the final name when nothing is there
\* (fs.rs 146-152)
Stream_rename_placeholder(p) ==
    /\ d_pc[p] = "r_place"
    /\ IF FinalPath(d_desc[p]) \in DOMAIN names
       THEN UNCHANGED storeVars
       ELSE LET st == StoreCreate(names, inodes, FinalPath(d_desc[p]), "file")
            IN  names' = st.names /\ inodes' = st.inodes
    /\ Goto(p, "r_xchg")
    /\ UNCHANGED <<dlFrame, d_log, impl, plain, d_desc, d_fd, d_i, d_hasher, d_body,
                   d_result, d_before, d_after, d_corrupt>>

\* step 3: renameat2(.., RENAME_EXCHANGE) (fs.rs 154-160)
Stream_rename_exchange(p) ==
    /\ d_pc[p] = "r_xchg"
    /\ TmpPath(d_desc[p]) \in DOMAIN names
    /\ FinalPath(d_desc[p]) \in DOMAIN names
    /\ names' = StoreExchange(names, TmpPath(d_desc[p]), FinalPath(d_desc[p]))
    /\ Goto(p, "r_rm")
    /\ UNCHANGED <<dlFrame, d_log, inodes, impl, plain, d_desc, d_fd, d_i, d_hasher, d_body,
                   d_result, d_before, d_after, d_corrupt>>

\* step 4: remove what the temp name holds now, and Ok(file_path)
\* (fs.rs 162-170, mod.rs 73)
Stream_rename_remove(p) ==
    /\ d_pc[p] = "r_rm"
    /\ names' = IF TmpPath(d_desc[p]) \in DOMAIN names
                THEN StoreRemove(names, TmpPath(d_desc[p])) ELSE names
    /\ Ended(p, Ok(<<>>), names', inodes)
    /\ UNCHANGED <<dlFrame, d_log, inodes, impl, plain, d_desc, d_i, d_hasher, d_body,
                   d_before, d_corrupt>>

\* ---- both ---------------------------------------------------------------
\* a file-system call of the download fails: `?` returns the I/O error
Download_io_error(p) ==
    /\ d_pc[p] \in SyscallPcs
    /\ Ended(p, IoError, names, inodes)
    /\ UNCHANGED <<dlFrame, d_log, storeVars, impl, plain, d_desc, d_i, d_hasher, d_body,
                   d_before, d_corrupt>>

\* the call is cancelled, or its process killed, between two steps
Download_crash(p) ==
    /\ d_pc[p] \in RunningPcs
    /\ d_pc' = [d_pc EXCEPT ![p] = "crashed"]
    /\ d_fd' = [d_fd EXCEPT ![p] = 0]
    /\ d_after' = [d_after EXCEPT ![p] = Held(names, inodes, FinalPath(d_desc[p]))]
    /\ UNCHANGED <<dlFrame, d_log, storeVars, impl, plain, d_desc, d_i, d_hasher, d_body,
                   d_result, d_before, d_corrupt>>

NextDownload ==
    \/ \E p \in Procs : Download_start(p)
    \/ \E p \in Procs : Streams_create_tmp(p)
    \/ \E p \in Procs : Streams_lock(p)
    \/ \E p \in Procs : Streams_chunk(p)
    \/ \E p \in Procs : Streams_verify(p)
    \/ \E p \in Procs : Streams_cleanup(p)
    \/ \E p \in Procs : Streams_perms(p)
    \/ \E p \in Procs : Streams_exists(p)
    \/ \E p \in Procs : Streams_rename(p)
    \/ \E p \in Procs : Stream_get(p)
    \/ \E p \in Procs : Stream_create_new(p)
    \/ \E p \in Procs : Stream_read(p)
    \/ \E p \in Procs : Stream_read_end(p)
    \/ \E p \in Procs : Stream_cleanup(p)
    \/ \E p \in Procs : Stream_rename_metadata(p)
    \/ \E p \in Procs : Stream_rename_placeholder(p)
    \/ \E p \in Procs : Stream_rename_exchange(p)
    \/ \E p \in Procs : Stream_rename_remove(p)
    \/ \E p \in Procs : Download_io_error(p)
    \/ \E p \in Procs : Download_crash(p)

SpecDownload == InitDownload /\ [][NextDownload]_vars


(***************************************************************************)
(* Properties of Stream::download                                          *)
(***************************************************************************)
\* no call is between two of its steps
Quiescent == \A p \in Procs : d_pc[p] \notin RunningPcs

\* the digest a stream's final name promises: the hash it starts with
NameHash(n) == n[1][1]

\* the digest of a file's bytes, as the implementation at hand computes it
StoreDigest(data) == IF impl = "streams" THEN HashOf(hash_kind, data) ELSE blake3_hash(data)

\* the final names that hold something else than a file with the digest in
\* their name
Unverified ==
    {n \in DOMAIN names :
        /\ IsFinalName(n)
        /\ \/ inodes[names[n]].kind # "file"
           \/ StoreDigest(inodes[names[n]].data) # NameHash(n)}

C2_FinalNameHoldsOnlyVerifiedContent ==
    (/\ Quiescent
     /\ \E p \in Procs : \/ d_pc[p] \in {"crashed", "panicked"}
                         \/ d_pc[p] = "returned" /\ d_result[p].tag # "Ok")
    => Unverified = {}

\* C10: a download that finds a file under the final name and returns Ok
\* leaves that name with the same file, content and mode.
C10_ExistingFinalFileIsLeftAlone ==
    \A p \in Procs :
        (d_pc[p] = "returned" /\ d_result[p].tag = "Ok" /\ d_before[p] # NoEntry)
        => d_after[p] = d_before[p]


\* C11: a download that returns a hash error, whether a chunk's digest or
\* the whole stream's digest did not match, has deleted its temp file by
\* the time it returns (stated for the time until the next call begins).
C11_HashErrorLeavesNoTempFile ==
    \A p \in Procs :
        (/\ d_pc[p] = "returned"
         /\ d_result[p].tag = "HashError"
         /\ \A q \in Procs : q > p => d_pc[q] = "idle")
        => TmpPath(d_desc[p]) \notin DOMAIN names


(***************************************************************************)
(* Concurrent Stream::download calls into one store: the calls of Procs    *)
(* begin at any time and their steps interleave freely; the only           *)
(* coordination is what the code does (the lock of streams/stream.rs, the  *)
(* exclusive create of stream/mod.rs).  No call is killed and no           *)
(* file-system call fails for an outside reason.                           *)
(***************************************************************************)
\* Stream::download is called on a Stream while other calls may be running
Download_spawn(p) ==
    /\ d_pc[p] = "idle"
    /\ \E st \in Descs :
          /\ d_desc' = [d_desc EXCEPT ![p] = st]
          /\ d_before' = [d_before EXCEPT ![p] = Held(names, inodes, FinalPath(st))]
    /\ d_hasher' = [d_hasher EXCEPT ![p] =
                       Hasher_new(IF impl = "streams" THEN hash_kind ELSE "Blake3")]
    /\ Goto(p, IF impl = "streams" THEN "a_create" ELSE "b_get")
    /\ UNCHANGED <<dlFrame, d_log, storeVars, impl, plain, d_fd, d_i, d_body, d_result,
                   d_after, d_corrupt>>

NextConcurrent ==
    \/ \E p \in Procs : Download_spawn(p)
    \/ \E p \in Procs : Streams_create_tmp(p)
    \/ \E p \in Procs : Streams_lock(p)
    \/ \E p \in Procs : Streams_chunk(p)
    \/ \E p \in Procs : Streams_verify(p)
    \/ \E p \in Procs : Streams_cleanup(p)
    \/ \E p \in Procs : Streams_perms(p)
    \/ \E p \in Procs : Streams_exists(p)
    \/ \E p \in Procs : Streams_rename(p)
    \/ \E p \in Procs : Stream_get(p)
    \/ \E p \in Procs : Stream_create_new(p)
    \/ \E p \in Procs : Stream_read(p)
    \/ \E p \in Procs : Stream_read_end(p)
    \/ \E p \in Procs : Stream_cleanup(p)
    \/ \E p \in Procs : Stream_rename_metadata(p)
    \/ \E p \in Procs : Stream_rename_placeholder(p)
    \/ \E p \in Procs : Stream_rename_exchange(p)
    \/ \E p \in Procs : Stream_rename_remove(p)

SpecConcurrent == InitDownload /\ [][NextConcurrent]_vars

\* C12: whatever the interleaving of concurrent downloads, at every moment
\* every file visible under a final name has the digest that name starts
\* with.
C12_ConcurrentDownloadsPublishOnlyVerified == Unverified = {}


(***************************************************************************)
(* Tree (tree/mod.rs), with the Stream of stream/mod.rs.                   *)
(*                                                                         *)
(* A source directory is a Node of kind "dir" whose entries are files,     *)
(* directories and symlinks.  A stream directory is a function from names  *)
(* <<hash, extension>> to files.  The file system the tree is deployed     *)
(* into is a function from paths to entries.                               *)
(***************************************************************************)
File(data, perm) == Node("file", data, perm, <<>>, NoEntries)
Dir(perm, entries) == Node("dir", <<>>, perm, <<>>, entries)
Link(target) == Node("symlink", <<>>, 511, target, NoEntries)

\* MetadataExt::mode, PermissionsExt::mode: st_mode, the file type bits
\* (0o100000 for a file, 0o040000 for a directory) included
StMode(n) == n.mode + (IF n.kind = "dir" THEN 16384 ELSE 32768)

\* the type DirEntry::file_type gives: the entry's own, a symlink is not followed
EntryType_followed(dir, n) ==
    IF /\ dir.entries[n].kind = "symlink"
       /\ Len(dir.entries[n].target) = 1
       /\ dir.entries[n].target[1] \in DOMAIN dir.entries
    THEN dir.entries[dir.entries[n].target[1]].kind
    ELSE dir.entries[n].kind

EntryType(dir, n) == dir.entries[n].kind

\* whether entry n is a symlink to another entry of the same directory
LinksSibling(dir, n) ==
    /\ dir.entries[n].kind = "symlink"
    /\ Len(dir.entries[n].target) = 1
    /\ dir.entries[n].target[1] \in DOMAIN dir.entries

\* what opening entry.path() reaches: open and read_dir follow a symlink
Opened(dir, n) ==
    IF LinksSibling(dir, n) THEN dir.entries[dir.entries[n].target[1]] ELSE dir.entries[n]

\* the directory that opening entry.path() lists
OpenedPath(dir, path, n) ==
    Append(path, IF LinksSibling(dir, n) THEN dir.entries[n].target[1] ELSE n)

\* the orders in which a set can be enumerated
Perms(S) == {q \in [1..Cardinality(S) -> S] : \A i, j \in 1..Cardinality(S) : q[i] = q[j] => i = j}

RECURSIVE DirPaths(_, _)
DirPaths(dir, path) ==
    {path} \cup UNION {DirPaths(dir.entries[n], Append(path, n)) :
                          n \in {m \in DOMAIN dir.entries : dir.entries[m].kind = "dir"}}

RECURSIVE NodeAt(_, _)
NodeAt(dir, path) == IF path = <<>> THEN dir ELSE NodeAt(dir.entries[Head(path)], Tail(path))

\* what read_dir may do: any order for the entries of each directory
Orders(dir) ==
    LET P == DirPaths(dir, <<>>)
    IN  {o \in [P -> UNION {Perms(DOMAIN NodeAt(dir, p).entries) : p \in P}] :
            \A p \in P : o[p] \in Perms(DOMAIN NodeAt(dir, p).entries)}

\* the entries of ord[path] of a type, in the order of ord[path]
OfType(dir, listed, type) == SelectSeq(listed, LAMBDA n : EntryType(dir, n) = type)

\* ---- Stream::create (stream/mod.rs 80-137) ------------------------------
\* the Stream it returns for the file f named name
Stream_new(name, f) == [hash |-> blake3_hash(f.data), file_name |-> name, mode |-> StMode(f)]

\* set_file_name("tmp"): the one temp name of a stream directory
StreamTmpName == <<-1, "tmp">>

\* <stream_dir>/<hash> with set_extension(extension) when there is one
CompressedName(hash, comp) ==
    <<hash, IF comp = NoCompression THEN "" ELSE get_compression_extension(comp)>>

PutFile(files, name, f) == [q \in DOMAIN files \cup {name} |-> IF q = name THEN f ELSE files[q]]

\* what the call does to the stream directory, and whether it returns Ok:
\* create_new of the temp file, the compressed bytes renamed to the
\* compressed name, the source file linked, or else copied, to <hash>; the
\* copy opens an existing <hash> for writing, which its mode must allow
Stream_create_files(files, f, comp) ==
    LET h == blake3_hash(f.data)
        packed == PutFile(files, CompressedName(h, comp), File(Codec_encode(comp, f.data), NewMode("file")))
    IN  IF StreamTmpName \in DOMAIN files THEN [ok |-> FALSE, files |-> files]
        ELSE IF <<h, "">> \in DOMAIN packed /\ Bit(packed[<<h, "">>].mode, 7) = 0
        THEN [ok |-> FALSE, files |-> packed]
        ELSE [ok |-> TRUE, files |-> PutFile(packed, <<h, "">>, File(f.data, f.mode))]

\* ---- Tree::create (tree/mod.rs 71-107) -----------------------------------
\* the files Stream::create is called on, in call order: the entries in
\* read_dir order, a directory's files at the directory's place
RECURSIVE CreateFrom(_, _, _, _)
CreateFrom(dir, path, ord, i) ==
    IF i > Len(ord[path]) THEN <<>>
    ELSE LET n == ord[path][i]
             here == IF EntryType(dir, n) = "file" THEN <<Opened(dir, n)>>
                     ELSE IF EntryType(dir, n) = "dir"
                     THEN CreateFrom(Opened(dir, n), OpenedPath(dir, path, n), ord, 1)
                     ELSE <<>>
         IN  here \o CreateFrom(dir, path, ord, i + 1)

\* the Stream::create calls one after the other, up to the first that fails
RECURSIVE CreateAll(_, _, _)
CreateAll(files, fs, comp) ==
    IF fs = <<>> THEN [ok |-> TRUE, files |-> files]
    ELSE LET r == Stream_create_files(files, Head(fs), comp)
         IN  IF r.ok THEN CreateAll(r.files, Tail(fs), comp) ELSE r

\* the Tree built: each entry pushed to the Vec of its type, in read_dir order
RECURSIVE Tree_build(_, _, _)
Tree_build(dir, path, ord) ==
    LET fs == OfType(dir, ord[path], "file")
        ds == OfType(dir, ord[path], "dir")
        ls == OfType(dir, ord[path], "symlink")
    IN  [permissions |-> StMode(dir),
         streams |-> [i \in 1..Len(fs) |-> Stream_new(fs[i], Opened(dir, fs[i]))],
         subtrees |-> [i \in 1..Len(ds) |->
                          <<ds[i], Tree_build(Opened(dir, ds[i]), OpenedPath(dir, path, ds[i]), ord)>>],
         symlinks |-> [i \in 1..Len(ls) |->
                          [file_name |-> ls[i], target |-> dir.entries[ls[i]].target]]]

\* Tree::create of dir into the stream directory files
Tree_create(dir, ord, files, comp) ==
    LET r == CreateAll(files, CreateFrom(dir, <<>>, ord, 1), comp)
    IN  [ok |-> r.ok, files |-> r.files,
         tree |-> IF r.ok THEN Tree_build(dir, <<>>, ord) ELSE NoTree]

\* ---- the directories of the model ---------------------------------------
TreeBytes == BytesUpTo(MaxTreeFileLen)

\* the nested directory: a one-byte file, and perhaps a symlink or a
\* directory with a file
SubDirs ==
    {Dir(493, ("c" :> File(b, 420)) @@ more) :
        b \in [1..1 -> Byte],
        more \in {NoEntries, "m" :> Link(<<"c">>), "b" :> Dir(493, "d" :> File(<<1>>, 420))}}

\* the top directory: a file, the nested directory, and perhaps a second
\* file or a symlink to one of the two
SrcDirs ==
    {Dir(493, ("file" :> File(a, m)) @@ ("a" :> sub) @@ more) :
        a \in TreeBytes, m \in {420, 292}, sub \in SubDirs,
        more \in {NoEntries, "g" :> File(<<0>>, 420), "l" :> Link(<<"file">>), "l" :> Link(<<"a">>)}}

InitTree ==
    /\ IdleWriter
    /\ IdlePair
    /\ IdleChunk
    /\ IdleCreate
    /\ IdleDownload
    /\ IdleStore
    /\ IdleRename
    /\ repo = EmptyDir
    /\ chunks_dir = FALSE
    /\ hash_kind = "Blake3"
    /\ compression \in {NoCompression, "Zstd"}
    /\ t_src \in SrcDirs
    /\ t_ord = <<>>
    /\ t_pc = "start"
    /\ t_tree = NoTree
    /\ t_tree2 = NoTree
    /\ t_remote = NoFiles
    /\ t_local = NoFiles
    /\ t_todo = <<>>
    /\ t_log = <<>>
    /\ t_result = NoResult
    /\ t_cwd = <<>>
    /\ t_xdev = FALSE
    /\ t_deploy = NoFiles

\* Tree::create(remote_stream_path, original_path, compression)
Tree_create_call ==
    /\ t_pc = "start"
    /\ \E ord \in Orders(t_src) :
          LET r == Tree_create(t_src, ord, t_remote, compression)
          IN  /\ t_ord' = ord
              /\ t_remote' = r.files
              /\ t_tree' = r.tree
              /\ t_result' = IF r.ok THEN Ok(<<>>) ELSE IoError
              /\ t_pc' = IF r.ok THEN "created" ELSE "create_failed"
    /\ UNCHANGED <<treeFrame, compression, t_src, t_tree2, t_local, t_todo, t_log,
                   t_cwd, t_xdev, t_deploy>>

\* Tree::create once more, of a directory with the same contents that
\* read_dir may list in another order, into the same stream directory
Tree_create_again ==
    /\ t_pc = "created"
    /\ \E ord \in Orders(t_src) :
          LET r == Tree_create(t_src, ord, t_remote, compression)
          IN  /\ t_remote' = r.files
              /\ t_tree2' = r.tree
              /\ t_result' = IF r.ok THEN Ok(<<>>) ELSE IoError
              /\ t_pc' = IF r.ok THEN "created_again" ELSE "create_failed"
    /\ UNCHANGED <<treeFrame, compression, t_src, t_ord, t_tree, t_local, t_todo, t_log,
                   t_cwd, t_xdev, t_deploy>>

\* ---- Tree::download (tree/mod.rs 25-41) ----------------------------------
\* faulty variant: the subtrees are gone into before the direct streams
RECURSIVE DownloadOrder_subtrees_first(_, _)
DownloadOrder_subtrees_first(tree, path) ==
    LET RECURSIVE Subs(_)
        Subs(i) == IF i > Len(tree.subtrees) THEN <<>>
                   ELSE DownloadOrder_subtrees_first(tree.subtrees[i][2],
                                                     Append(path, tree.subtrees[i][1]))
                        \o Subs(i + 1)
    IN  Subs(1) \o [i \in 1..Len(tree.streams) |-> [path |-> path, stream |-> tree.streams[i]]]

\* the Stream::download calls of Tree::download, in call order: the two
\* loops, the one over self.streams first
RECURSIVE DownloadOrder(_, _)
DownloadOrder(tree, path) ==
    LET RECURSIVE Subs(_)
        Subs(i) == IF i > Len(tree.subtrees) THEN <<>>
                   ELSE DownloadOrder(tree.subtrees[i][2], Append(path, tree.subtrees[i][1]))
                        \o Subs(i + 1)
    IN  [i \in 1..Len(tree.streams) |-> [path |-> path, stream |-> tree.streams[i]]] \o Subs(1)

\* Stream::download of stream/mod.rs as one call: what it returns and what
\* it leaves in the stream directory
Stream_download(files, st, resp, comp) ==
    LET content == Codec_content(comp, resp.body)
    IN  IF resp.status # 200 THEN [result |-> NetworkError, files |-> files]
        ELSE IF <<st.hash, "tmp">> \in DOMAIN files THEN [result |-> IoError, files |-> files]
        ELSE IF ~Codec_clean(comp, resp.body)
        THEN [result |-> IoError,
              files |-> PutFile(files, <<st.hash, "tmp">>, File(content, NewMode("file")))]
        ELSE IF Stream_hash_matches(st, blake3_hash(content))
        THEN [result |-> Ok(<<>>),
              files |-> PutFile(files, <<st.hash, "">>, File(content, NewMode("file")))]
        ELSE [result |-> HashError(st.hash, blake3_hash(content)), files |-> files]

\* what the server may answer to the GET of a stream: the file of the
\* repository, other bytes, a body cut short, or a failure
TreeResponses(st) ==
    LET name == CompressedName(st.hash, compression)
        gone == [status |-> 404, body |-> <<>>]
    IN  IF name \notin DOMAIN t_remote THEN {gone}
        ELSE {[status |-> 200, body |-> t_remote[name].data],
              [status |-> 200,
               body |-> Codec_encode(compression,
                                     Corrupt(Codec_content(compression, t_remote[name].data)))],
              [status |-> 200, body |-> Front(t_remote[name].data)],
              gone}

Tree_download_start ==
    /\ t_pc = "created"
    /\ t_pc' = "downloading"
    /\ t_todo' = DownloadOrder(t_tree, <<>>)
    /\ UNCHANGED <<treeFrame, compression, t_src, t_ord, t_tree, t_tree2, t_remote, t_local,
                   t_log, t_result, t_cwd, t_xdev, t_deploy>>

\* the next stream.download(..).await?: on an error Tree::download returns it
Tree_download_stream ==
    /\ t_pc = "downloading"
    /\ t_todo # <<>>
    /\ \E resp \in TreeResponses(Head(t_todo).stream) :
          LET r == Stream_download(t_local, Head(t_todo).stream, resp, compression)
          IN  /\ t_local' = r.files
              /\ t_log' = Append(t_log, [path |-> Head(t_todo).path,
                                         stream |-> Head(t_todo).stream,
                                         result |-> r.result])
              /\ IF r.result.tag = "Ok"
                 THEN t_todo' = Tail(t_todo) /\ UNCHANGED <<t_pc, t_result>>
                 ELSE t_todo' = <<>> /\ t_pc' = "download_failed" /\ t_result' = r.result
    /\ UNCHANGED <<treeFrame, compression, t_src, t_ord, t_tree, t_tree2, t_remote,
                   t_cwd, t_xdev, t_deploy>>

\* both loops are through: Ok(())
Tree_download_done ==
    /\ t_pc = "downloading"
    /\ t_todo = <<>>
    /\ t_pc' = "downloaded"
    /\ t_result' = Ok(<<>>)
    /\ UNCHANGED <<treeFrame, compression, t_src, t_ord, t_tree, t_tree2, t_remote, t_local,
                   t_todo, t_log, t_cwd, t_xdev, t_deploy>>

\* ---- Tree::deploy (tree/mod.rs 47-68) -------------------------------------
\* an entry of the file system deployed into; via tells how a file was placed
Deployed(kind, data, mode, target, via) ==
    [kind |-> kind, data |-> data, mode |-> mode, target |-> target, via |-> via]

\* the directories that exist before deploy: deploy_path and the working directory
DeployRoot == <<"deploy">>
Elsewhere == <<"cwd">>

\* faulty variant: every file is put at the top of deploy_path
DeployTarget_flat(dpath, st) == Append(DeployRoot, st.file_name)

\* deploy_path.join(&stream.file_name)
DeployTarget(dpath, st) == Append(dpath, st.file_name)

\* where symlink(&link.target, &link.file_name) makes the link: the bare
\* file name is resolved against the working directory of the process
SymlinkPath(cwd, link) == Append(cwd, link.file_name)

DeployOp(op, path, hash, target) == [op |-> op, path |-> path, hash |-> hash, target |-> target]

\* the file-system calls of deploy in call order: for each subtree
\* create_dir_all and the subtree's own calls, then a hard_link (or copy)
\* for each stream, then a symlink for each link
RECURSIVE DeployOps(_, _, _)
DeployOps(tree, dpath, cwd) ==
    LET RECURSIVE Subs(_)
        Subs(i) ==
            IF i > Len(tree.subtrees) THEN <<>>
            ELSE <<DeployOp("mkdir", Append(dpath, tree.subtrees[i][1]), 0, <<>>)>>
                 \o DeployOps(tree.subtrees[i][2], Append(dpath, tree.subtrees[i][1]), cwd)
                 \o Subs(i + 1)
    IN  Subs(1)
        \o [i \in 1..Len(tree.streams) |->
               DeployOp("link", DeployTarget(dpath, tree.streams[i]), tree.streams[i].hash, <<>>)]
        \o [i \in 1..Len(tree.symlinks) |->
               DeployOp("symlink", SymlinkPath(cwd, tree.symlinks[i]), 0, tree.symlinks[i].target)]

PutEntry(fs, path, e) == [q \in DOMAIN fs \cup {path} |-> IF q = path THEN e ELSE fs[q]]

\* whether the directory a path lies in exists
ParentExists(fs, path) ==
    \/ Front(path) \in {DeployRoot, Elsewhere}
    \/ Front(path) \in DOMAIN fs /\ fs[Front(path)].kind = "dir"

Tree_deploy_start ==
    /\ t_pc = "downloaded"
    /\ t_pc' = "deploying"
    /\ t_cwd' \in {Elsewhere, DeployRoot}
    /\ t_xdev' \in BOOLEAN
    /\ t_todo' = DeployOps(t_tree, DeployRoot, t_cwd')
    /\ UNCHANGED <<treeFrame, compression, t_src, t_ord, t_tree, t_tree2, t_remote, t_local,
                   t_log, t_result, t_deploy>>

\* std::fs::create_dir_all(next_deploy_path)?
Tree_deploy_mkdir ==
    /\ t_pc = "deploying"
    /\ t_todo # <<>>
    /\ Head(t_todo).op = "mkdir"
    /\ LET path == Head(t_todo).path
       IN  IF path \in DOMAIN t_deploy
           THEN IF t_deploy[path].kind = "dir"
                THEN t_todo' = Tail(t_todo) /\ UNCHANGED <<t_pc, t_result, t_deploy>>
                ELSE /\ t_todo' = <<>>
                     /\ t_pc' = "deploy_failed"
                     /\ t_result' = IoError
                     /\ UNCHANGED t_deploy
           ELSE /\ t_deploy' = PutEntry(t_deploy, path, Deployed("dir", <<>>, NewMode("dir"), <<>>, "mkdir"))
                /\ t_todo' = Tail(t_todo)
                /\ UNCHANGED <<t_pc, t_result>>
    /\ UNCHANGED <<treeFrame, compression, t_src, t_ord, t_tree, t_tree2, t_remote, t_local,
                   t_log, t_cwd, t_xdev>>

\* whether std::fs::hard_link(&original_path, &target_path) can succeed
CanLink(op) ==
    /\ ~t_xdev
    /\ <<op.hash, "">> \in DOMAIN t_local
    /\ op.path \notin DOMAIN t_deploy
    /\ ParentExists(t_deploy, op.path)

\* hard_link succeeds: the deployed name is the store's file
Tree_deploy_link ==
    /\ t_pc = "deploying"
    /\ t_todo # <<>>
    /\ Head(t_todo).op = "link"
    /\ CanLink(Head(t_todo))
    /\ LET f == t_local[<<Head(t_todo).hash, "">>]
       IN  t_deploy' = PutEntry(t_deploy, Head(t_todo).path,
                                Deployed("file", f.data, f.mode, <<>>, "link"))
    /\ t_todo' = Tail(t_todo)
    /\ UNCHANGED <<treeFrame, compression, t_src, t_ord, t_tree, t_tree2, t_remote, t_local,
                   t_log, t_result, t_pc, t_cwd, t_xdev>>

\* hard_link fails and std::fs::copy(&original_path, &target_path)? runs:
\* content and permission bits are copied, or the error is returned
Tree_deploy_copy ==
    /\ t_pc = "deploying"
    /\ t_todo # <<>>
    /\ Head(t_todo).op = "link"
    /\ ~CanLink(Head(t_todo))
    /\ LET op == Head(t_todo)
           fails == \/ <<op.hash, "">> \notin DOMAIN t_local
                    \/ ~ParentExists(t_deploy, op.path)
                    \/ /\ op.path \in DOMAIN t_deploy
                       /\ \/ t_deploy[op.path].kind = "dir"
                          \/ Bit(t_deploy[op.path].mode, 7) = 0
       IN  IF fails
           THEN /\ t_todo' = <<>>
                /\ t_pc' = "deploy_failed"
                /\ t_result' = IoError
                /\ UNCHANGED t_deploy
           ELSE /\ t_deploy' = PutEntry(t_deploy, op.path,
                                        Deployed("file", t_local[<<op.hash, "">>].data,
                                                 t_local[<<op.hash, "">>].mode, <<>>, "copy"))
                /\ t_todo' = Tail(t_todo)
                /\ UNCHANGED <<t_pc, t_result>>
    /\ UNCHANGED <<treeFrame, compression, t_src, t_ord, t_tree, t_tree2, t_remote, t_local,
                   t_log, t_cwd, t_xdev>>

\* symlink(&link.target, &link.file_name)?: fails when the name is taken
Tree_deploy_symlink ==
    /\ t_pc = "deploying"
    /\ t_todo # <<>>
    /\ Head(t_todo).op = "symlink"
    /\ IF Head(t_todo).path \in DOMAIN t_deploy
       THEN /\ t_todo' = <<>>
            /\ t_pc' = "deploy_failed"
            /\ t_result' = IoError
            /\ UNCHANGED t_deploy
       ELSE /\ t_deploy' = PutEntry(t_deploy, Head(t_todo).path,
                                    Deployed("symlink", <<>>, 511, Head(t_todo).target, "symlink"))
            /\ t_todo' = Tail(t_todo)
            /\ UNCHANGED <<t_pc, t_result>>
    /\ UNCHANGED <<treeFrame, compression, t_src, t_ord, t_tree, t_tree2, t_remote, t_local,
                   t_log, t_cwd, t_xdev>>

\* the three loops are through: Ok(())
Tree_deploy_done ==
    /\ t_pc = "deploying"
    /\ t_todo = <<>>
    /\ t_pc' = "deployed"
    /\ t_result' = Ok(<<>>)
    /\ UNCHANGED <<treeFrame, compression, t_src, t_ord, t_tree, t_tree2, t_remote, t_local,
                   t_todo, t_log, t_cwd, t_xdev, t_deploy>>

NextTree ==
    \/ Tree_create_call
    \/ Tree_create_again
    \/ Tree_download_start
    \/ Tree_download_stream
    \/ Tree_download_done
    \/ Tree_deploy_start
    \/ Tree_deploy_mkdir
    \/ Tree_deploy_link
    \/ Tree_deploy_copy
    \/ Tree_deploy_symlink
    \/ Tree_deploy_done

SpecTree == InitTree /\ [][NextTree]_vars


(***************************************************************************)
(* Properties of Tree                                                      *)
(***************************************************************************)
\* the Streams of a Tree at every depth, each with the path of its directory
RECURSIVE AllStreams(_, _)
AllStreams(tree, path) ==
    {[path |-> path, stream |-> tree.streams[i]] : i \in 1..Len(tree.streams)}
    \cup UNION {AllStreams(tree.subtrees[i][2], Append(path, tree.subtrees[i][1])) :
                   i \in 1..Len(tree.subtrees)}

\* the Symlinks of a Tree at every depth, each with the path of its directory
RECURSIVE AllSymlinks(_, _)
AllSymlinks(tree, path) ==
    {[path |-> path, link |-> tree.symlinks[i]] : i \in 1..Len(tree.symlinks)}
    \cup UNION {AllSymlinks(tree.subtrees[i][2], Append(path, tree.subtrees[i][1])) :
                   i \in 1..Len(tree.subtrees)}

\* the regular files of a directory at every depth, each with its relative path
RECURSIVE SrcFiles(_, _)
SrcFiles(dir, path) ==
    {[path |-> Append(path, n), file |-> dir.entries[n]] :
        n \in {m \in DOMAIN dir.entries : dir.entries[m].kind = "file"}}
    \cup UNION {SrcFiles(dir.entries[n], Append(path, n)) :
                   n \in {m \in DOMAIN dir.entries : dir.entries[m].kind = "dir"}}

IsStrictPrefix(a, b) == Len(a) < Len(b) /\ SubSeq(b, 1, Len(a)) = a

\* the store holds the stream's file, and its bytes have the stream's hash
Verified(files, st) ==
    /\ <<st.hash, "">> \in DOMAIN files
    /\ blake3_hash(files[<<st.hash, "">>].data) = st.hash

\* C14: Tree::download never downloads a stream of a directory after a
\* stream of one of its subdirectories; when it returns Ok every stream of
\* every depth was fetched and has a verified file in the store; when a
\* stream download fails, it is the last one made, every one before it
\* returned Ok, and its error is what Tree::download returns.
C14_DownloadIsStreamsFirstAndAborts ==
    /\ \A i, j \in 1..Len(t_log) : i < j => ~IsStrictPrefix(t_log[j].path, t_log[i].path)
    /\ t_pc = "downloaded" =>
          /\ t_result.tag = "Ok"
          /\ \A s \in AllStreams(t_tree, <<>>) :
                /\ Verified(t_local, s.stream)
                /\ \E i \in 1..Len(t_log) : t_log[i].path = s.path /\ t_log[i].stream = s.stream
    /\ t_pc = "download_failed" =>
          /\ t_log # <<>>
          /\ t_result = t_log[Len(t_log)].result
          /\ t_result.tag \in {"HashError", "NetworkError", "IoError"}
          /\ \A i \in 1..(Len(t_log) - 1) : t_log[i].result.tag = "Ok"
    /\ t_pc = "downloading" => \A i \in 1..Len(t_log) : t_log[i].result.tag = "Ok"

\* a tree with streams at three depths was downloaded
C14_Witness ==
    /\ t_pc = "downloaded"
    /\ \E s \in AllStreams(t_tree, <<>>) : Len(s.path) = 2
    /\ Len(t_log) >= 3
    /\ t_log[1].path = <<>>

\* C15: after Tree::create, Tree::download from the created repository and
\* Tree::deploy have all returned Ok, every regular file of the source is at
\* the same relative path under deploy_path with the same bytes, placed by
\* a hard link or by a copy.
C15_RoundTripKeepsFileContents ==
    t_pc = "deployed" =>
        \A f \in SrcFiles(t_src, <<>>) :
            /\ DeployRoot \o f.path \in DOMAIN t_deploy
            /\ t_deploy[DeployRoot \o f.path].kind = "file"
            /\ t_deploy[DeployRoot \o f.path].data = f.file.data
            /\ t_deploy[DeployRoot \o f.path].via \in {"link", "copy"}

\* compressed round trip of a tree with a non-empty nested file, placed by copy
C15_Witness ==
    /\ t_pc = "deployed"
    /\ compression = "Zstd"
    /\ t_xdev
    /\ <<"deploy", "a", "c">> \in DOMAIN t_deploy
    /\ t_deploy[<<"deploy", "a", "c">>].via = "copy"
    /\ t_deploy[<<"deploy", "a", "c">>].data = t_src.entries["a"].entries["c"].data
    /\ t_src.entries["a"].entries["c"].data # <<>>
    /\ t_src.entries["file"].data # t_src.entries["a"].entries["c"].data

\* C16: after Tree::deploy returned Ok, every Symlink of the tree, at any
\* depth, is at <deploy_path>/<relative directory>/<file_name> and points
\* at the recorded target.
C16_DeployRecreatesSymlinksInPlace ==
    t_pc = "deployed" =>
        \A l \in AllSymlinks(t_tree, <<>>) :
            /\ Append(DeployRoot \o l.path, l.link.file_name) \in DOMAIN t_deploy
            /\ t_deploy[Append(DeployRoot \o l.path, l.link.file_name)].kind = "symlink"
            /\ t_deploy[Append(DeployRoot \o l.path, l.link.file_name)].target = l.link.target

\* C17: after create, download and deploy, each deployed regular file has
\* the permission bits recorded in its Stream, read-only forced.
C17_DeployedModeIsRecordedMode ==
    t_pc = "deployed" =>
        \A s \in AllStreams(t_tree, <<>>) :
            /\ Append(DeployRoot \o s.path, s.stream.file_name) \in DOMAIN t_deploy
            /\ t_deploy[Append(DeployRoot \o s.path, s.stream.file_name)].mode
                  = set_readonly(s.stream.mode % 4096)

\* C18: two Tree::create runs on directories with the same contents return
\* equal Trees, whatever the order read_dir lists the entries in.
C18_CreateIsIndependentOfListingOrder ==
    t_pc = "created_again" => t_tree2 = t_tree

\* whether a Tree sorts the entries of a directory as Tree::create should
RECURSIVE Classified(_, _)
Classified(dir, tree) ==
    /\ \A n \in DOMAIN dir.entries :
          /\ Cardinality({i \in 1..Len(tree.streams) : tree.streams[i].file_name = n})
                = IF dir.entries[n].kind = "file" THEN 1 ELSE 0
          /\ Cardinality({i \in 1..Len(tree.subtrees) : tree.subtrees[i][1] = n})
                = IF dir.entries[n].kind = "dir" THEN 1 ELSE 0
          /\ Cardinality({i \in 1..Len(tree.symlinks) : tree.symlinks[i].file_name = n})
                = IF dir.entries[n].kind = "symlink" THEN 1 ELSE 0
    /\ \A i \in 1..Len(tree.streams) :
          /\ tree.streams[i].file_name \in DOMAIN dir.entries
          /\ tree.streams[i].hash = blake3_hash(dir.entries[tree.streams[i].file_name].data)
    /\ \A i \in 1..Len(tree.symlinks) :
          /\ tree.symlinks[i].file_name \in DOMAIN dir.entries
          /\ tree.symlinks[i].target = dir.entries[tree.symlinks[i].file_name].target
    /\ \A i \in 1..Len(tree.subtrees) :
          /\ tree.subtrees[i][1] \in DOMAIN dir.entries
          /\ dir.entries[tree.subtrees[i][1]].kind = "dir"
          /\ Classified(dir.entries[tree.subtrees[i][1]], tree.subtrees[i][2])

\* C19: the Tree that Tree::create returns has every directory entry in
\* exactly one collection, the one of the entry's own type: a file as a
\* Stream of the file's bytes, a directory as the subtree of its name
\* created from that directory, a symlink as its name and raw target,
\* neither recursed into nor hashed.
C19_CreateClassifiesByOwnType ==
    t_pc = "created" => Classified(t_src, t_tree)

\* a tree with a symlink to a directory and, below, a symlink to a file
C19_Witness ==
    /\ t_pc = "created"
    /\ "l" \in DOMAIN t_src.entries
    /\ t_src.entries["l"].target = <<"a">>
    /\ "m" \in DOMAIN t_src.entries["a"].entries
    /\ Len(t_tree.symlinks) = 1
    /\ Len(t_tree.subtrees) = 1
    /\ Len(t_tree.subtrees[1][2].symlinks) = 1
    /\ Len(t_tree.subtrees[1][2].streams) = 1


(***************************************************************************)
(* Modes of reconstructed files                                            *)
(***************************************************************************)
\* no write bit (0o222) is set
NonWritable(m) == set_readonly(m) = m

\* C20: every file that Stream::download has put under a final name is
\* non-writable: its mode was set, read-only forced, before it was
\* published.
C20_PublishedFilesAreNonWritable ==
    \A n \in DOMAIN names : IsFinalName(n) => NonWritable(inodes[names[n]].mode)

(***************************************************************************)
(* Names of chunks and streams as text (compression.rs, streams/chunk.rs,  *)
(* streams/mod.rs).  A text is the sequence of its pieces, so that a name  *)
(* built by appending an extension and a name built by formatting can be   *)
(* compared piece by piece.                                                *)
(***************************************************************************)
\* CompressionKind::try_get_extension: Some(ext) is <<ext>>, None is <<>>
try_get_extension(kind) ==
    CASE kind = "Zstd" -> <<"zstd">>
      [] kind = "Lz4" -> <<"lz4">>
      [] kind = "Xz" -> <<"xz">>
      [] kind = NoCompression -> <<>>

\* CompressionKind::get_extension_with_dot
get_extension_with_dot(kind) ==
    LET e == try_get_extension(kind)
    IN  IF e # <<>> THEN <<".", e[1]>> ELSE <<>>

\* PathBuf::add_extension: a dot and the extension follow the file name
add_extension(name, ext) == name \o <<".", ext>>

\* the file name Chunk::create publishes under
Chunk_create_name(hash, comp) ==
    IF comp # NoCompression
    THEN add_extension(<<hash>>, get_compression_extension(comp))
    ELSE <<hash>>

\* the last segment of the URL Chunk::download requests
Chunk_download_name(hash, comp) ==
    LET compression_ext == IF comp # NoCompression
                           THEN <<".", get_compression_extension(comp)>>
                           ELSE <<>>
    IN  <<hash>> \o compression_ext

\* C21: a chunk's name carries an extension exactly when a compression is
\* configured, Zstd giving "zstd", Lz4 "lz4" and Xz "xz"; the dotted form
\* puts a "." in front only where an extension exists; and for every
\* compression the name Chunk::create publishes under is the name
\* Chunk::download requests.
C21_ChunkNameIsTheSameForCreateAndDownload ==
    LET h == blake3_hash(raw_data)
    IN  /\ \A k \in OptCompression :
            /\ (try_get_extension(k) = <<>>) <=> (k = NoCompression)
            /\ get_extension_with_dot(k) =
                   (IF k = NoCompression THEN <<>> ELSE <<".">> \o try_get_extension(k))
            /\ (Len(Chunk_create_name(h, k)) > 1) <=> (k # NoCompression)
            /\ Chunk_create_name(h, k) = Chunk_download_name(h, k)
            /\ Chunk_create_name(h, k) = <<h>> \o get_extension_with_dot(k)
        /\ try_get_extension("Zstd") = <<"zstd">>
        /\ try_get_extension("Lz4") = <<"lz4">>
        /\ try_get_extension("Xz") = <<"xz">>
        /\ \A k \in Compression : <<get_compression_extension(k)>> = try_get_extension(k)
        /\ (ChunkExt(compression) = "") <=> (compression = NoCompression)
        /\ c_pc = "created" =>
               /\ Exists(repo, ChunkPath(chunk.hash, compression))
               /\ Chunk_request(chunk, compression) = ChunkPath(chunk.hash, compression)
               /\ Served(repo, Chunk_request(chunk, compression)).status = 200

\* a compressed chunk was published and then fetched under the same name
C21_Witness ==
    /\ c_pc = "created"
    /\ compression = "Zstd"
    /\ dl_result.tag = "Ok"
    /\ ChunkPath(chunk.hash, compression) = <<chunk.hash, "zstd">>

\* the characters of the decimal digits
DecimalDigits == <<"0", "1", "2", "3", "4", "5", "6", "7", "8", "9">>

\* faulty variant: only the last digit is written
Decimal_units(n) == <<DecimalDigits[(n % 10) + 1]>>

\* u32::to_string: the decimal digits, most significant first, no padding
RECURSIVE Decimal(_)
Decimal(n) ==
    IF n < 10 THEN <<DecimalDigits[n + 1]>>
    ELSE Decimal(n \div 10) \o <<DecimalDigits[(n % 10) + 1]>>

\* Stream::get_raw_filename as text: format!("{}{}", hash, permission.to_string())
get_raw_filename_text(hash_text, permission) == hash_text \o Decimal(permission)

\* the permission bits a Stream may record
PermissionBits == 0..511

\* C22: the store file name of a stream is its hash immediately followed by
\* its permission in decimal ("abc" and 123 give "abc123"), so the same hash
\* under two different permissions gives two different names.
C22_RawFilenameIsHashThenDecimalPermission ==
    /\ get_raw_filename_text(<<"a", "b", "c">>, 123) = <<"a", "b", "c", "1", "2", "3">>
    /\ s_pc = "done" =>
          LET name == get_raw_filename_text(<<stream.hash>>, stream.permission)
          IN  /\ Head(name) = stream.hash
              /\ Tail(name) = Decimal(stream.permission)
              /\ get_raw_filename(stream) = <<Head(name), stream.permission>>
              /\ \A m \in PermissionBits :
                     m # stream.permission =>
                         get_raw_filename_text(<<stream.hash>>, m) # name

\* a created stream of mode 0o644, recorded as 0o444, named <hash>292
C22_Witness ==
    /\ s_pc = "done"
    /\ file_mode = 420
    /\ get_raw_filename_text(<<stream.hash>>, stream.permission)
           = <<stream.hash, "2", "9", "2">>

(***************************************************************************)
(* The order of the chunk requests of one Stream::download                 *)
(* (streams/stream.rs 29-45), under SpecDownload.                          *)
(***************************************************************************)
\* the plaintexts of the first k chunks of the file, one after the other
RECURSIVE ConcatFirst(_, _)
ConcatFirst(pieces, k) ==
    IF k = 0 THEN <<>> ELSE ConcatFirst(pieces, k - 1) \o pieces[k]

\* C23: a download of streams/stream.rs requests the chunks in list order,
\* each once; the verified bytes of a chunk are in the temp file before the
\* next chunk is requested; the first chunk that fails ends the call, so
\* that no later chunk is requested; and once every chunk has succeeded
\* the temp file holds the chunk plaintexts one after the other.
C23_ChunksAreFetchedInOrderOnceEach ==
    \A p \in Procs :
        impl = "streams" =>
            LET log == d_log[p]
                cs == d_desc[p].chunks
            IN  /\ \A j \in 1..Len(log) : log[j].chunk = j
                /\ Len(log) <= Len(cs)
                /\ Len(log) \in {d_i[p], d_i[p] + 1}
                /\ \A j \in 1..Len(log) : j <= d_i[p] => log[j].status = 200
                /\ Len(log) = d_i[p] + 1 =>
                       /\ d_pc[p] \in {"returned", "panicked"}
                       /\ d_result[p].tag # "Ok"
                /\ d_pc[p] \in LockedPcs =>
                       /\ Len(log) = d_i[p]
                       /\ inodes[d_fd[p]].data = ConcatFirst(Split(plain), d_i[p])
                       /\ \A j \in 1..d_i[p] :
                              blake3_hash(Split(plain)[j]) = cs[j].hash
                /\ d_pc[p] \in {"a_perms", "a_exists", "a_rename"} =>
                       /\ d_i[p] = Len(cs)
                       /\ inodes[d_fd[p]].data = ConcatFirst(Split(plain), Len(cs))

\* a download of a two-chunk stream got its first chunk and then a hash
\* mismatch on the second: two requests, one chunk done, the call over
C23_Witness ==
    \E p \in Procs :
        /\ impl = "streams"
        /\ Len(d_desc[p].chunks) = 2
        /\ d_log[p] = <<[chunk |-> 1, status |-> 200], [chunk |-> 2, status |-> 200]>>
        /\ d_i[p] = 1
        /\ d_pc[p] = "returned"
        /\ d_result[p].tag = "HashError"

(***************************************************************************)
(* Stream::create of stream/mod.rs (80-137), step by step.  The calls of   *)
(* Procs, each on its own source file, write into one stream directory;    *)
(* they begin at any time and their steps interleave freely, so that one   *)
(* call may also run wholly after the other has ended.  Any step of a call *)
(* after the creation of its temp file may fail, which returns the error   *)
(* through `?`.                                                            *)
(***************************************************************************)
\* longest source file of these calls
MaxSrcLen == 2

\* what the file under a compressing writer holds while the writer is open
\* and has taken `written`: the frame without its end
Encoder_pending(comp, written) ==
    IF comp = NoCompression THEN written ELSE Front(Codec_encode(comp, written))

\* faulty variant: shutting down writes nothing more
Encoder_shutdown_lost(comp, written) == Encoder_pending(comp, written)

\* what the file holds once writer.shutdown() (or close()) has returned
Encoder_shutdown(comp, written) == Codec_encode(comp, written)

\* the names a call publishes under
WriterHash(p) == blake3_hash(w_src[p])
WriterCompressed(p) == CompressedName(WriterHash(p), compression)
WriterUncompressed(p) == <<WriterHash(p), "">>

\* the pcs at which a call is inside fs::rename
WriterRenamePcs == {"r_meta", "r_place", "r_xchg", "r_rm"}

\* call p ends with result res
Writer_return(p, res) ==
    /\ w_pc' = [w_pc EXCEPT ![p] = "returned"]
    /\ w_result' = [w_result EXCEPT ![p] = res]

InitStreamCreate ==
    /\ IdlePair
    /\ IdleTree
    /\ IdleChunk
    /\ IdleCreate
    /\ IdleDownload
    /\ IdleRename
    /\ IdleStore
    /\ repo = EmptyDir
    /\ chunks_dir = FALSE
    /\ hash_kind = "Blake3"
    /\ compression \in {NoCompression, "Zstd", "Lz4"}
    /\ w_src \in [Procs -> BytesUpTo(MaxSrcLen)]
    /\ w_pc = [p \in Procs |-> "new"]
    /\ w_off = [p \in Procs |-> 0]
    /\ w_hasher = [p \in Procs |-> Hasher_new("Blake3")]
    /\ w_fd = [p \in Procs |-> 0]
    /\ w_shut = [p \in Procs |-> FALSE]
    /\ w_result = [p \in Procs |-> NoResult]

\* the mode, the hasher, and fs::File::create_new of <stream_dir>/tmp, which
\* fails when the name exists (mod.rs 93-100)
Create_new(p) ==
    /\ w_pc[p] = "new"
    /\ IF StreamTmpName \in DOMAIN names
       THEN /\ Writer_return(p, IoError)
            /\ UNCHANGED <<storeVars, w_fd>>
       ELSE LET st == StoreCreate(names, inodes, StreamTmpName, "file")
            IN  /\ names' = st.names
                /\ inodes' = st.inodes
                /\ w_fd' = [w_fd EXCEPT ![p] = st.names[StreamTmpName]]
                /\ w_pc' = [w_pc EXCEPT ![p] = "read"]
                /\ UNCHANGED w_result
    /\ UNCHANGED <<writerFrame, w_src, w_off, w_hasher, w_shut>>

\* one turn of the loop over read_chunked that gets bytes: they go to the
\* hasher and to the writer (mod.rs 105-110, fs.rs 85-125)
Create_write(p) ==
    /\ w_pc[p] = "read"
    /\ w_off[p] < Len(w_src[p])
    /\ \E n \in 1..CHUNK_SIZE :
          /\ w_off[p] + n <= Len(w_src[p])
          /\ w_hasher' = [w_hasher EXCEPT ![p] =
                             Hasher_update(@, SubSeq(w_src[p], w_off[p] + 1, w_off[p] + n))]
          /\ inodes' = [inodes EXCEPT ![w_fd[p]].data =
                           Encoder_pending(compression, SubSeq(w_src[p], 1, w_off[p] + n))]
          /\ w_off' = [w_off EXCEPT ![p] = @ + n]
    /\ UNCHANGED <<writerFrame, names, w_src, w_pc, w_fd, w_shut, w_result>>

\* the read of 0 bytes ends the loop; the writer is shut down
\* (mod.rs 112-116)
Create_shutdown(p) ==
    /\ w_pc[p] = "read"
    /\ w_off[p] = Len(w_src[p])
    /\ inodes' = [inodes EXCEPT ![w_fd[p]].data = Encoder_shutdown(compression, w_src[p])]
    /\ w_shut' = [w_shut EXCEPT ![p] = TRUE]
    /\ w_pc' = [w_pc EXCEPT ![p] = "r_meta"]
    /\ UNCHANGED <<writerFrame, names, w_src, w_off, w_hasher, w_fd, w_result>>

\* fs::rename(output_temp_path, compressed_path), step 1: metadata of the
\* temp file (mod.rs 126, fs.rs 144)
Create_rename_metadata(p) ==
    /\ w_pc[p] = "r_meta"
    /\ IF StreamTmpName \in DOMAIN names
       THEN w_pc' = [w_pc EXCEPT ![p] = "r_place"] /\ UNCHANGED w_result
       ELSE Writer_return(p, IoError)
    /\ UNCHANGED <<writerFrame, storeVars, w_src, w_off, w_hasher, w_fd, w_shut>>

\* step 2: an empty file under the compressed name when nothing is there
\* (fs.rs 146-152)
Create_rename_placeholder(p) ==
    /\ w_pc[p] = "r_place"
    /\ IF WriterCompressed(p) \in DOMAIN names
       THEN UNCHANGED storeVars
       ELSE LET st == StoreCreate(names, inodes, WriterCompressed(p), "file")
            IN  names' = st.names /\ inodes' = st.inodes
    /\ w_pc' = [w_pc EXCEPT ![p] = "r_xchg"]
    /\ UNCHANGED <<writerFrame, w_src, w_off, w_hasher, w_fd, w_shut, w_result>>

\* step 3: renameat2(.., RENAME_EXCHANGE) (fs.rs 154-160)
Create_rename_exchange(p) ==
    /\ w_pc[p] = "r_xchg"
    /\ IF StreamTmpName \in DOMAIN names /\ WriterCompressed(p) \in DOMAIN names
       THEN /\ names' = StoreExchange(names, StreamTmpName, WriterCompressed(p))
            /\ w_pc' = [w_pc EXCEPT ![p] = "r_rm"]
            /\ UNCHANGED w_result
       ELSE /\ Writer_return(p, IoError)
            /\ UNCHANGED names
    /\ UNCHANGED <<writerFrame, inodes, w_src, w_off, w_hasher, w_fd, w_shut>>

\* step 4: remove what the temp name holds now (fs.rs 162-170)
Create_rename_remove(p) ==
    /\ w_pc[p] = "r_rm"
    /\ names' = IF StreamTmpName \in DOMAIN names
                THEN StoreRemove(names, StreamTmpName) ELSE names
    /\ w_pc' = [w_pc EXCEPT ![p] = "link"]
    /\ UNCHANGED <<writerFrame, inodes, w_src, w_off, w_hasher, w_fd, w_shut, w_result>>

\* hard_link(file, uncompressed_path), or else copy, which opens an existing
\* <hash> for writing; then Ok (mod.rs 127-136)
Create_link(p) ==
    /\ w_pc[p] = "link"
    /\ IF WriterUncompressed(p) \notin DOMAIN names
       THEN LET st == StoreCreate(names, inodes, WriterUncompressed(p), "file")
            IN  /\ names' = st.names
                /\ inodes' = [st.inodes EXCEPT ![Len(st.inodes)].data = w_src[p]]
                /\ Writer_return(p, Ok(<<>>))
       ELSE IF Bit(Entry(names, inodes, WriterUncompressed(p)).mode, 7) = 1
       THEN /\ inodes' = [inodes EXCEPT ![names[WriterUncompressed(p)]].data = w_src[p]]
            /\ UNCHANGED names
            /\ Writer_return(p, Ok(<<>>))
       ELSE /\ UNCHANGED storeVars
            /\ Writer_return(p, IoError)
    /\ UNCHANGED <<writerFrame, w_src, w_off, w_hasher, w_fd, w_shut>>

\* a read of the source, a write, the shutdown or a step of the rename
\* fails: `?` returns the error, and the call leaves what it made
Create_fault(p) ==
    /\ w_pc[p] \in {"read"} \cup WriterRenamePcs
    /\ w_pc' = [w_pc EXCEPT ![p] = "failed"]
    /\ w_result' = [w_result EXCEPT ![p] = IoError]
    /\ UNCHANGED <<writerFrame, storeVars, w_src, w_off, w_hasher, w_fd, w_shut>>

NextStreamCreate ==
    \/ \E p \in Procs : Create_new(p)
    \/ \E p \in Procs : Create_write(p)
    \/ \E p \in Procs : Create_shutdown(p)
    \/ \E p \in Procs : Create_rename_metadata(p)
    \/ \E p \in Procs : Create_rename_placeholder(p)
    \/ \E p \in Procs : Create_rename_exchange(p)
    \/ \E p \in Procs : Create_rename_remove(p)
    \/ \E p \in Procs : Create_link(p)
    \/ \E p \in Procs : Create_fault(p)

SpecStreamCreate == InitStreamCreate /\ [][NextStreamCreate]_vars

\* the names other than the temp name under which the temp file a call
\* created is found
PublishedAs(p) == {n \in DOMAIN names : n # StreamTmpName /\ names[n] = w_fd[p]}

\* C24: the compressing writer of Stream::create is shut down after the last
\* byte of the source was written to it and before the temp file is
\* published: whenever the file a call wrote is under a published name, or
\* the call is inside the rename that publishes it, its writer was shut
\* down with the whole source written, and the file is a complete encoding
\* of the source.
C24_WriterIsShutDownBeforePublish ==
    \A p \in Procs :
        /\ w_shut[p] => w_off[p] = Len(w_src[p])
        /\ w_pc[p] \in WriterRenamePcs \cup {"link"} => w_shut[p]
        /\ (w_fd[p] # 0 /\ PublishedAs(p) # {}) =>
               /\ w_shut[p]
               /\ PublishedAs(p) = {WriterCompressed(p)}
               /\ Codec_clean(compression, inodes[w_fd[p]].data)
               /\ Codec_content(compression, inodes[w_fd[p]].data) = w_src[p]
               /\ inodes[w_fd[p]].data = Codec_encode(compression, w_src[p])

\* a call compressed a source of two bytes with zstd, in two writes or one,
\* and returned Ok with its temp file published under <hash>.zstd
C24_Witness ==
    \E p \in Procs :
        /\ compression = "Zstd"
        /\ Len(w_src[p]) = 2
        /\ w_pc[p] = "returned"
        /\ w_result[p].tag = "Ok"
        /\ w_shut[p]
        /\ PublishedAs(p) = {<<WriterHash(p), "zstd">>}

\* C28: Stream::create calls on different source files into one stream
\* directory do not interfere: each call that no failure of its own stopped
\* returns Ok, with its compressed file published, whether the calls run
\* at the same time or one after a call that failed midway.
C28_CreatesIntoOneDirectoryDoNotInterfere ==
    \A p \in Procs :
        w_pc[p] = "returned" =>
            /\ w_result[p].tag = "Ok"
            /\ WriterCompressed(p) \in DOMAIN names

\* the last GET a call made
LastGet(p) == d_log[p][Len(d_log[p])]

\* C25: a GET of a chunk or of a stream that is answered with a status that
\* is no success ends the download with a network error: the call returns
\* no bytes, feeds nothing of that answer to a hasher and compares no
\* digest, and the final name holds after the call what it held before.
C25_FailedStatusIsANetworkError ==
    \A p \in Procs :
        (d_log[p] # <<>> /\ LastGet(p).status # 200) =>
            /\ d_pc[p] = "returned"
            /\ d_result[p] = NetworkError
            /\ d_result[p].data = <<>>
            /\ ~d_corrupt[p]
            /\ d_after[p] = d_before[p]
            /\ d_body[p] = <<>>
            /\ d_hasher[p].n = (IF impl = "streams"
                                THEN Len(ConcatFirst(Split(plain), d_i[p]))
                                ELSE 0)

\* the second chunk of a stream was answered with 404 after the first was
\* fetched: a network error, nothing published
C25_Witness ==
    \E p \in Procs :
        /\ impl = "streams"
        /\ d_log[p] = <<[chunk |-> 1, status |-> 200], [chunk |-> 2, status |-> 404]>>
        /\ d_pc[p] = "returned"
        /\ d_result[p] = NetworkError
        /\ d_before[p] = NoEntry
        /\ d_after[p] = NoEntry

(***************************************************************************)
(* Termination of Stream::create (streams/stream.rs 93-113).  The call is  *)
(* one thread that runs on: a step that can be taken is taken.             *)
(***************************************************************************)
SpecCreateFair == InitCreate /\ [][NextCreate]_vars /\ WF_vars(NextCreate)

\* the call has returned, with the Stream or an error, or panicked
CreateEnded == s_pc \in {"done", "failed", "panicked"}

\* C26: Stream::create ends for every source file; the loop ends at the
\* first read of 0 bytes, which comes when the whole file was read; for an
\* empty file the Stream has no chunks, its hash is the digest of the empty
\* input, and no chunk file was written.
C26_CreateTerminates ==
    /\ <>CreateEnded
    /\ [][(s_pc = "read" /\ Stream_read_amount(Len(file) - s_off) = 0) => s_pc' # "read"]_vars
    /\ [](s_pc = "done" => s_off = Len(file))
    /\ []((s_pc = "done" /\ file = <<>>) =>
              /\ stream.chunks = <<>>
              /\ stream.hash = HashOf(hash_kind, <<>>)
              /\ repo = EmptyDir
              /\ ~chunks_dir)

\* an empty file was made a Stream, under a compression whose chunks
\* cannot be written
C26_Witness ==
    /\ s_pc = "done"
    /\ file = <<>>
    /\ compression = "Lz4"
    /\ hash_kind = "Xxh3"
    /\ stream.chunks = <<>>
    /\ repo = EmptyDir

\* C27: a temp file that a failed download left behind is harmless: when a
\* call has returned an error and a later call downloads the same stream
\* from a server that answers correctly, the later call is never stopped
\* by the temp file of the earlier one.  In stream/mod.rs the later call is
\* stopped exactly when the temp name exists at its create_new, so the
\* name must be free then.
C27_LeftoverTempFileNeverBlocksRetry ==
    \A p, q \in Procs :
        (/\ p < q
         /\ d_pc[p] = "returned"
         /\ d_result[p].tag # "Ok"
         /\ d_desc[q] = d_desc[p]
         /\ impl = "stream"
         /\ d_pc[q] = "b_create"
         /\ d_body[q] = Codec_encode(compression, plain))
        => TmpPath(d_desc[q]) \notin DOMAIN names

\* C29: once a download has returned Ok, no temp file of that stream is in
\* the store, also when the final name held a file already and nothing was
\* published (stated for the time until the next call begins).
C29_OkLeavesNoTempFile ==
    \A p \in Procs :
        (/\ d_pc[p] = "returned"
         /\ d_result[p].tag = "Ok"
         /\ \A q \in Procs : q > p => d_pc[q] = "idle")
        => TmpPath(d_desc[p]) \notin DOMAIN names

(***************************************************************************)
(* Concurrent Chunk::create calls (streams/chunk.rs 61-98) on the same     *)
(* bytes, repository and compression.  The calls of Procs begin at any     *)
(* time and their system calls interleave freely; none fails for an        *)
(* outside reason.  fs::write is an open that creates or truncates,        *)
(* followed by the write; both calls use chunks/<hash>.tmp.                *)
(***************************************************************************)
\* call p ends with result res
Pair_return(p, res) ==
    /\ cp_pc' = [cp_pc EXCEPT ![p] = "returned"]
    /\ cp_result' = [cp_result EXCEPT ![p] = res]

InitChunkPair ==
    /\ IdleWriter
    /\ IdleTree
    /\ IdleCreate
    /\ IdleDownload
    /\ IdleRename
    /\ IdleStore
    /\ repo = EmptyDir
    /\ chunks_dir = FALSE
    /\ hash_kind = "Blake3"
    /\ compression \in OptCompression
    /\ raw_data \in BytesUpTo(MaxRawLen)
    /\ c_pc = "idle"
    /\ c_data = <<>>
    /\ chunk = NoChunk
    /\ response = NoResponse
    /\ dl_result = NoResult
    /\ repo_before = EmptyDir
    /\ cp_pc = [p \in Procs |-> "start"]
    /\ cp_fd = [p \in Procs |-> 0]
    /\ cp_chunk = [p \in Procs |-> NoChunk]
    /\ cp_result = [p \in Procs |-> NoResult]

\* the hash, the two paths, the encoding (todo!() for Lz4 and Xz) and
\* create_dir_all when the directory is missing (chunk.rs 66-86)
Pair_prepare(p) ==
    /\ cp_pc[p] = "start"
    /\ IF Chunk_create_panics(compression)
       THEN cp_pc' = [cp_pc EXCEPT ![p] = "panicked"] /\ UNCHANGED chunks_dir
       ELSE cp_pc' = [cp_pc EXCEPT ![p] = "open"] /\ chunks_dir' = TRUE
    /\ UNCHANGED <<pairFrame, storeVars, cp_fd, cp_chunk, cp_result>>

\* fs::write(&chunk_path_tmp, &data), the open: the file is created, or the
\* one that is there is truncated (chunk.rs 88)
Pair_open(p) ==
    /\ cp_pc[p] = "open"
    /\ LET st == StoreCreateTruncate(names, inodes, ChunkPathTmp(blake3_hash(raw_data)))
       IN  /\ names' = st.names
           /\ inodes' = st.inodes
           /\ cp_fd' = [cp_fd EXCEPT ![p] = st.names[ChunkPathTmp(blake3_hash(raw_data))]]
    /\ cp_pc' = [cp_pc EXCEPT ![p] = "write"]
    /\ UNCHANGED <<pairFrame, chunks_dir, cp_chunk, cp_result>>

\* fs::write, the write of the payload through the open handle
Pair_write(p) ==
    /\ cp_pc[p] = "write"
    /\ inodes' = [inodes EXCEPT ![cp_fd[p]].data =
                     WriteAt(@, 0, Chunk_encode(raw_data, compression))]
    /\ cp_pc' = [cp_pc EXCEPT ![p] = "rename"]
    /\ UNCHANGED <<pairFrame, chunks_dir, names, cp_fd, cp_chunk, cp_result>>

\* fs::rename(&chunk_path_tmp, chunk_path), which fails when the temp name
\* is gone, and Ok(chunk) (chunk.rs 89-97)
Pair_rename(p) ==
    /\ cp_pc[p] = "rename"
    /\ IF ChunkPathTmp(blake3_hash(raw_data)) \in DOMAIN names
       THEN /\ names' = StoreRename(names, ChunkPathTmp(blake3_hash(raw_data)),
                                    ChunkPath(blake3_hash(raw_data), compression))
            /\ cp_chunk' = [cp_chunk EXCEPT ![p] =
                               Chunk_meta(raw_data, Chunk_encode(raw_data, compression))]
            /\ Pair_return(p, Ok(<<>>))
       ELSE /\ Pair_return(p, IoError)
            /\ UNCHANGED <<names, cp_chunk>>
    /\ UNCHANGED <<pairFrame, chunks_dir, inodes, cp_fd>>

NextChunkPair ==
    \/ \E p \in Procs : Pair_prepare(p)
    \/ \E p \in Procs : Pair_open(p)
    \/ \E p \in Procs : Pair_write(p)
    \/ \E p \in Procs : Pair_rename(p)

SpecChunkPair == InitChunkPair /\ [][NextChunkPair]_vars

\* C30: two concurrent Chunk::create calls on the same bytes, repository
\* and compression both return Ok, with equal Chunks, however their writes
\* of the temp file and their renames interleave, and whenever the
\* published name chunks/<hash>[.<ext>] exists it holds the complete
\* payload.
C30_ConcurrentCreatesOfOneChunkBothSucceed ==
    /\ \A p \in Procs : cp_pc[p] = "returned" => cp_result[p].tag = "Ok"
    /\ \A p, q \in Procs :
           (cp_pc[p] = "returned" /\ cp_pc[q] = "returned") => cp_chunk[p] = cp_chunk[q]
    /\ ChunkPath(blake3_hash(raw_data), compression) \in DOMAIN names =>
           Entry(names, inodes, ChunkPath(blake3_hash(raw_data), compression)).data
               = Chunk_encode(raw_data, compression)

\* C31: Chunk::create and Chunk::download end with a value or an Error
\* under every compression of the data model (none, Zstd, Lz4, Xz): neither
\* call panics.
C31_ChunkCallsNeverPanic ==
    /\ c_pc # "panicked"
    /\ dl_result.tag # "Panic"

====
